---- MODULE Spec2Model ----
(***************************************************************************)
(* extractEmail: content resolution of an IMAP message.                    *)
(*                                                                         *)
(* JavaScript strings are modelled as sequences of one-character strings,  *)
(* so that length, trim, substring, toLowerCase and join are computed on   *)
(* characters.  A field that is absent (undefined) and a field that holds  *)
(* the empty string are both the empty sequence: the code only ever tests  *)
(* such fields for truthiness.                                             *)
(***************************************************************************)
EXTENDS Integers, Sequences, FiniteSets, TLC

VARIABLES
  \* the MIME tree navigator and attachment resolver, called on one message
  msg,            \* the message handed to the resolver
  spc,            \* which resolver function has been applied
  attachments,    \* result of findAttachmentsInStruct(msg.struct)
  names,          \* attachments.map(getAttachmentFilename)
  summary,        \* [ret, calls, io]: result of getAttachmentSummaryFromMessage
  \* the hierarchical JSON structurer, called on one parsed document
  doc,            \* doc.children, as parseDocument returns them
  hpc,            \* "in" before, "out" after the call
  json,           \* result of the reduction of doc
  \* one run of extractEmail()
  fullBody,       \* -f / --full-body
  htmlMode,       \* --html
  jsonMode,       \* "null", "default", "html" or "table"
  emailNumber,    \* JsNull or the number given with -n
  count,          \* the first all-digit argument parsed, or the default count
  extract,        \* the first argument that is not all digits, or "all"
  attachmentDownload,   \* -a / --attachment-download
  fromFilter,     \* JsNull or the text given with from=
  subjectFilter,  \* JsNull or the text given with subject=
  attachmentFilter,     \* attachment=true
  outputOption,   \* JsNull or what resolveOutputOption makes of -o: [type]
  messages,       \* what connection.search(['ALL']) returns, oldest first
  lastMessages,   \* the messages the loop goes through
  pc,             \* the statement the run is at
  i,              \* index in lastMessages of the message in work
  body,           \* let body of the loop
  calls,          \* for the message in work: the calls made on the connection
  currentAttachmentSummary,
  emailCount,     \* messages output so far by outputToTerminal
  outputBody,     \* the Body written for the message in work, JsNull before
  terminal,       \* what outputToTerminal and the -n branch have emitted, one entry per header
  downloaded,     \* the attachments written to disk by downloadAttachments
  outputWriter,   \* [enabled, initialized]
  outputFile,     \* the file at outputWriter.filePath: [exists, old, lines]
  conn,           \* the connection: [opened, ended], connect() returned, calls of end()
  \* the JSON object of one email, built from one header part
  headerBody,     \* the body of the HEADER part: from, to, date, subject
  jsonEmail,      \* JSON.parse of what JSON.stringify writes for the email
  jpc             \* "in" before, "out" after the object is built

structVars == <<msg, spc, attachments, names, summary>>
htmlVars == <<doc, hpc, json>>
flagVars == <<fullBody, htmlMode, jsonMode, emailNumber, count, extract, attachmentDownload,
              fromFilter, subjectFilter, attachmentFilter, outputOption>>
outVars == <<terminal, downloaded>>
ioVars == <<outputWriter, outputFile, conn>>
runVars == <<flagVars, outVars, ioVars, messages, lastMessages, pc, i, body, calls,
             currentAttachmentSummary, emailCount, outputBody>>

jsonVars == <<headerBody, jsonEmail, jpc>>

vars == <<structVars, htmlVars, runVars, jsonVars>>

(***************************************************************************)
(* Strings                                                                 *)
(***************************************************************************)
Whitespace == {" ", "\n", "\t", "\r"}

LowerLetters == {"a", "b", "c", "d", "e", "f", "g", "h", "i", "j", "k", "l", "m", "n", "o", "p", "q", "r", "s", "t", "u", "v", "w", "x", "y", "z"}

UpperLetters == {"A", "B", "C", "D", "E", "F", "G", "H", "I", "J", "K", "L", "M", "N", "O", "P", "Q", "R", "S", "T", "U", "V", "W", "X", "Y", "Z"}

LowerOf == ("A" :> "a") @@ ("B" :> "b") @@ ("C" :> "c") @@ ("D" :> "d") @@ ("E" :> "e") @@ ("F" :> "f") @@ ("G" :> "g") @@ ("H" :> "h") @@ ("I" :> "i") @@ ("J" :> "j") @@ ("K" :> "k") @@ ("L" :> "l") @@ ("M" :> "m") @@ ("N" :> "n") @@ ("O" :> "o") @@ ("P" :> "p") @@ ("Q" :> "q") @@ ("R" :> "r") @@ ("S" :> "s") @@ ("T" :> "t") @@ ("U" :> "u") @@ ("V" :> "v") @@ ("W" :> "w") @@ ("X" :> "x") @@ ("Y" :> "y") @@ ("Z" :> "z")

\* String.prototype.toLowerCase
toLowerCase(s) == [j \in 1..Len(s) |-> IF s[j] \in UpperLetters THEN LowerOf[s[j]] ELSE s[j]]

\* the least element of a non-empty set of numbers
Least(set) == CHOOSE m \in set : \A n \in set : m <= n

\* the first index >= j of s whose character is in set, Len(s) + 1 if none
IndexFrom(s, j, set) ==
  LET hits == {m \in j..Len(s) : s[m] \in set}
  IN IF hits = {} THEN Len(s) + 1 ELSE Least(hits)

\* the last index <= j of s whose character is not in set, 0 if none
LastOutside(s, j, set) ==
  LET back == {j - m : m \in {n \in 1..j : s[n] \notin set}}
  IN IF back = {} THEN 0 ELSE j - Least(back)

\* the first index >= j of s whose character is not in set, Len(s) + 1 if none
FirstOutside(s, j, set) ==
  LET hits == {m \in j..Len(s) : s[m] \notin set}
  IN IF hits = {} THEN Len(s) + 1 ELSE Least(hits)

\* String.prototype.trim
trim(s) == SubSeq(s, FirstOutside(s, 1, Whitespace), LastOutside(s, Len(s), Whitespace))

\* Array.prototype.join
RECURSIVE join(_, _)
join(list, sep) ==
  IF list = <<>> THEN <<>>
  ELSE IF Len(list) = 1 THEN list[1]
  ELSE list[1] \o sep \o join(Tail(list), sep)

S_text == <<"t", "e", "x", "t">>
S_plain == <<"p", "l", "a", "i", "n">>
S_html == <<"h", "t", "m", "l">>
S_application == <<"a", "p", "p", "l", "i", "c", "a", "t", "i", "o", "n">>
S_attachment == <<"a", "t", "t", "a", "c", "h", "m", "e", "n", "t">>
S_inline == <<"i", "n", "l", "i", "n", "e">>
S_attachmentDot == <<"a", "t", "t", "a", "c", "h", "m", "e", "n", "t", ".">>
S_commaSpace == <<",", " ">>

(***************************************************************************)
(* JavaScript values: strings, booleans, null, objects, arrays             *)
(***************************************************************************)
Str(s) == [t |-> "str", s |-> s]
JsFalse == [t |-> "bool", b |-> FALSE]
JsTrue == [t |-> "bool", b |-> TRUE]
JsNull == [t |-> "null"]
Num(n) == [t |-> "num", n |-> n]
Obj(kv) == [t |-> "obj", kv |-> kv]
Arr(items) == [t |-> "arr", items |-> items]

(***************************************************************************)
(* The MIME struct: an array whose elements are parts or, again, arrays.   *)
(***************************************************************************)
Part(id, type, subtype, disposition, params, parts) ==
  [k |-> "part", id |-> id, type |-> type, subtype |-> subtype,
   disposition |-> disposition, params |-> params, parts |-> parts]

ArrayOf(items) == [k |-> "array", items |-> items]

NoDisposition == [type |-> <<>>, filename |-> <<>>]
NoParams == [name |-> <<>>, filename |-> <<>>]

\* does not look into raw arrays
RECURSIVE findTextPartSkipsArrays(_)
findTextPartSkipsArrays(parts) ==
  IF parts = <<>> THEN JsNull
  ELSE LET part == Head(parts)
           nested == IF part.k = "array" THEN JsNull
                     ELSE IF part.type = S_text /\ part.subtype = S_plain THEN part
                     ELSE findTextPartSkipsArrays(part.parts)
       IN IF nested # JsNull THEN nested ELSE findTextPartSkipsArrays(Tail(parts))

RECURSIVE findTextPart(_)
findTextPart(parts) ==
  IF parts = <<>> THEN JsNull
  ELSE LET part == Head(parts)
           nested == IF part.k = "array" THEN findTextPart(part.items)
                     ELSE IF part.type = S_text /\ part.subtype = S_plain THEN part
                     ELSE findTextPart(part.parts)
       IN IF nested # JsNull THEN nested ELSE findTextPart(Tail(parts))

RECURSIVE findHtmlPart(_)
findHtmlPart(parts) ==
  IF parts = <<>> THEN JsNull
  ELSE LET part == Head(parts)
           nested == IF part.k = "array" THEN findHtmlPart(part.items)
                     ELSE IF part.type = S_text /\ part.subtype = S_html THEN part
                     ELSE findHtmlPart(part.parts)
       IN IF nested # JsNull THEN nested ELSE findHtmlPart(Tail(parts))

\* the if / else-if chain of findAttachmentsInStruct: TRUE when the part is pushed
classifyPartDropsUndeclared(part) ==
  LET dispositionType == toLowerCase(part.disposition.type)
      hasDispositionFilename == part.disposition.filename # <<>>
      hasPartName == part.params.name # <<>> \/ part.params.filename # <<>>
      isApplication == toLowerCase(part.type) = S_application
  IN IF dispositionType = S_attachment THEN TRUE
     ELSE IF hasDispositionFilename \/ hasPartName THEN TRUE
     ELSE IF dispositionType = S_inline /\ (hasDispositionFilename \/ isApplication) THEN TRUE
     ELSE FALSE

classifyPart(part) ==
  LET dispositionType == toLowerCase(part.disposition.type)
      hasDispositionFilename == part.disposition.filename # <<>>
      hasPartName == part.params.name # <<>> \/ part.params.filename # <<>>
      isApplication == toLowerCase(part.type) = S_application
  IN IF dispositionType = S_attachment THEN TRUE
     ELSE IF hasDispositionFilename \/ hasPartName THEN TRUE
     ELSE IF dispositionType = S_inline /\ (hasDispositionFilename \/ isApplication) THEN TRUE
     ELSE IF isApplication /\ part.subtype # <<>> THEN TRUE
     ELSE FALSE

RECURSIVE findAttachmentsInStruct(_, _)
findAttachmentsInStruct(parts, acc) ==
  IF parts = <<>> THEN acc
  ELSE LET part == Head(parts)
           after == IF part.k = "array" THEN findAttachmentsInStruct(part.items, acc)
                    ELSE findAttachmentsInStruct(part.parts,
                           IF classifyPart(part) THEN Append(acc, part) ELSE acc)
       IN findAttachmentsInStruct(Tail(parts), after)

getAttachmentFilenameNameLast(attachment) ==
  IF attachment.disposition.filename # <<>> THEN attachment.disposition.filename
  ELSE IF attachment.params.filename # <<>> THEN attachment.params.filename
  ELSE IF attachment.params.name # <<>> THEN attachment.params.name
  ELSE IF attachment.subtype # <<>> THEN S_attachmentDot \o toLowerCase(attachment.subtype)
  ELSE S_attachment

getAttachmentFilename(attachment) ==
  IF attachment.disposition.filename # <<>> THEN attachment.disposition.filename
  ELSE IF attachment.params.name # <<>> THEN attachment.params.name
  ELSE IF attachment.params.filename # <<>> THEN attachment.params.filename
  ELSE IF attachment.subtype # <<>> THEN S_attachmentDot \o toLowerCase(attachment.subtype)
  ELSE S_attachment

\* names.length === 1 ? names[0] : names.join(', '), after .filter(Boolean)
summaryOfNames(list) ==
  LET kept == SelectSeq(list, LAMBDA n : n # <<>>)
  IN IF kept = <<>> THEN JsTrue
     ELSE IF Len(kept) = 1 THEN Str(kept[1])
     ELSE Str(join(kept, S_commaSpace))

getAttachmentSummaryJoinsBare(struct) ==
  LET found == findAttachmentsInStruct(struct, <<>>)
  IN IF found = <<>> THEN JsFalse
     ELSE Str(join([j \in 1..Len(found) |-> getAttachmentFilename(found[j])], <<",">>))

getAttachmentSummary(struct) ==
  LET found == findAttachmentsInStruct(struct, <<>>)
  IN IF found = <<>> THEN JsFalse
     ELSE summaryOfNames([j \in 1..Len(found) |-> getAttachmentFilename(found[j])])

\* msg.parts.find(part => part.which === '' || 'RFC822' || 'BODY[]') || null
RECURSIVE getRawMessagePart(_)
getRawMessagePart(parts) ==
  IF parts = <<>> THEN JsNull
  ELSE IF Head(parts).which \in {"", "RFC822", "BODY[]"} THEN Head(parts)
  ELSE getRawMessagePart(Tail(parts))

\* a variant that re-fetches by UID although a raw part was pre-fetched
getAttachmentSummaryFromMessageAlwaysRefetches(m, connection, io) ==
  LET structSummary == getAttachmentSummary(m.struct)
      raw0 == getRawMessagePart(m.parts)
      doRefetch == connection /\ m.uid # 0
      rawPart == IF ~doRefetch \/ io.refetchThrows THEN raw0
                 ELSE IF Len(io.refetch) > 0 THEN getRawMessagePart(io.refetch[1].parts)
                 ELSE raw0
      calls1 == IF doRefetch THEN <<"search">> ELSE <<>>
  IN IF structSummary # JsFalse THEN [ret |-> structSummary, calls |-> <<>>]
     ELSE IF rawPart = JsNull THEN [ret |-> JsFalse, calls |-> calls1]
     ELSE IF trim(rawPart.body) = <<>> THEN [ret |-> JsFalse, calls |-> calls1]
     ELSE IF io.parseThrows THEN [ret |-> JsFalse, calls |-> Append(calls1, "simpleParser")]
     ELSE IF io.parsed = <<>> THEN [ret |-> JsFalse, calls |-> Append(calls1, "simpleParser")]
     ELSE [ret |-> summaryOfNames(io.parsed), calls |-> Append(calls1, "simpleParser")]

(* getAttachmentSummaryFromMessage(msg, connection).  io holds what the two   *)
(* awaited collaborators answer: connection.search throws (refetchThrows) or  *)
(* returns the messages io.refetch; simpleParser throws (parseThrows) or      *)
(* reports the attachment filenames io.parsed.  calls lists the collaborators *)
(* that were called, in order.                                                *)
getAttachmentSummaryFromMessage(m, connection, io) ==
  LET structSummary == getAttachmentSummary(m.struct)
      raw0 == getRawMessagePart(m.parts)
      doRefetch == raw0 = JsNull /\ connection /\ m.uid # 0
      rawPart == IF ~doRefetch \/ io.refetchThrows THEN raw0
                 ELSE IF Len(io.refetch) > 0 THEN getRawMessagePart(io.refetch[1].parts)
                 ELSE raw0
      calls1 == IF doRefetch THEN <<"search">> ELSE <<>>
  IN IF structSummary # JsFalse THEN [ret |-> structSummary, calls |-> <<>>]
     ELSE IF rawPart = JsNull THEN [ret |-> JsFalse, calls |-> calls1]
     ELSE IF trim(rawPart.body) = <<>> THEN [ret |-> JsFalse, calls |-> calls1]
     ELSE IF io.parseThrows THEN [ret |-> JsFalse, calls |-> Append(calls1, "simpleParser")]
     ELSE IF io.parsed = <<>> THEN [ret |-> JsFalse, calls |-> Append(calls1, "simpleParser")]
     ELSE [ret |-> summaryOfNames(io.parsed), calls |-> Append(calls1, "simpleParser")]

(***************************************************************************)
(* downloadAttachments(connection, msg, headersPart, outputDir).  A path   *)
(* is the sequence of its segments below the root; path.join concatenates  *)
(* its arguments with '/' and normalises the result.                       *)
(***************************************************************************)
\* the segments of a relative path, '' included: s.split('/')
RECURSIVE pathSegments(_)
pathSegments(s) ==
  IF \A j \in 1..Len(s) : s[j] # "/" THEN <<s>>
  ELSE LET at == CHOOSE j \in 1..Len(s) : s[j] = "/" /\ \A m \in 1..(j - 1) : s[m] # "/"
       IN <<SubSeq(s, 1, at - 1)>> \o pathSegments(SubSeq(s, at + 1, Len(s)))

\* path.normalize of an absolute path: '' and '.' vanish, '..' removes the
\* segment before it and vanishes at the root
RECURSIVE normalize(_, _)
normalize(done, segments) ==
  IF segments = <<>> THEN done
  ELSE IF Head(segments) \in {<<>>, <<".">>} THEN normalize(done, Tail(segments))
  ELSE IF Head(segments) = <<".", ".">>
    THEN normalize(IF done = <<>> THEN done ELSE SubSeq(done, 1, Len(done) - 1), Tail(segments))
  ELSE normalize(Append(done, Head(segments)), Tail(segments))

\* path.join(outputDir, filename), outputDir absolute
pathJoin(outputDir, filename) == normalize(<<>>, outputDir \o pathSegments(filename))

S_cwd == <<"c", "w", "d">>
S_attachments == <<"a", "t", "t", "a", "c", "h", "m", "e", "n", "t", "s">>
S_out == <<"o", "u", "t">>

\* outputOptions?.path || path.join(process.cwd(), 'attachments')
downloadDir == IF outputOption # JsNull THEN <<S_cwd, S_out>> ELSE <<S_cwd, S_attachments>>

\* the files written: one per attachment of the struct whose getPartData and
\* writeFileSync succeed (succeed: their positions), in traversal order
downloadAttachments(m, outputDir, succeed) ==
  LET found == findAttachmentsInStruct(m.struct, <<>>)
      written == SelectSeq([j \in 1..Len(found) |-> [j |-> j, name |-> getAttachmentFilename(found[j])]],
                           LAMBDA f : f.j \in succeed)
  IN [j \in 1..Len(written) |->
        [uid |-> m.uid, filename |-> written[j].name, filePath |-> pathJoin(outputDir, written[j].name)]]

(***************************************************************************)
(* The hierarchical JSON structurer (parseHtmlToHierarchicalJson).  A DOM  *)
(* node is a tag with a name and children, a text node or a comment.  An   *)
(* object is its entries [k, v] in insertion order.                        *)
(***************************************************************************)
S_style == <<"s", "t", "y", "l", "e">>
S_script == <<"s", "c", "r", "i", "p", "t">>
S_head == <<"h", "e", "a", "d">>
S_meta == <<"m", "e", "t", "a">>
S_link == <<"l", "i", "n", "k">>
S_noscript == <<"n", "o", "s", "c", "r", "i", "p", "t">>
S_body == <<"b", "o", "d", "y">>
S_tbody == <<"t", "b", "o", "d", "y">>
S_thead == <<"t", "h", "e", "a", "d">>
S_tfoot == <<"t", "f", "o", "o", "t">>
S_img == <<"i", "m", "g">>
S_br == <<"b", "r">>
S_hr == <<"h", "r">>
S_input == <<"i", "n", "p", "u", "t">>
S_wbr == <<"w", "b", "r">>
S_col == <<"c", "o", "l">>
S_area == <<"a", "r", "e", "a">>
S_base == <<"b", "a", "s", "e">>
S_embed == <<"e", "m", "b", "e", "d">>
S_source == <<"s", "o", "u", "r", "c", "e">>
S_track == <<"t", "r", "a", "c", "k">>
S_table == <<"t", "a", "b", "l", "e">>
S_tr == <<"t", "r">>
S_td == <<"t", "d">>
S_th == <<"t", "h">>
S_root == <<"r", "o", "o", "t">>
S_tagData == <<"t", "a", "g", "-", "d", "a", "t", "a">>
S_div == <<"d", "i", "v">>
S_p == <<"p">>
S_span == <<"s", "p", "a", "n">>
S_h1 == <<"h", "1">>
S_h2 == <<"h", "2">>
S_h3 == <<"h", "3">>

\* the no-break space U+00A0, one character
NBSP == "nbsp"

SKIP_TAGS == {S_style, S_script, S_head, S_meta, S_link, S_noscript}
TRANSPARENT_TAGS == {S_html, S_body, S_tbody, S_thead, S_tfoot}
VOID_TAGS == {S_img, S_br, S_hr, S_input, S_wbr, S_col, S_area, S_base, S_embed, S_source, S_track}

Tag(name, children) == [type |-> "tag", name |-> name, children |-> children]
Text(data) == [type |-> "text", data |-> data]
Comment(data) == [type |-> "comment", data |-> data]

\* .replace(/\u00a0/g, ' ')
replaceNbsp(s) == [j \in 1..Len(s) |-> IF s[j] = NBSP THEN " " ELSE s[j]]

\* String.prototype.trim also strips U+00A0
trimJs(s) == trim([j \in 1..Len(s) |-> IF s[j] = NBSP THEN " " ELSE s[j]])

RECURSIVE getTextContent(_)
RECURSIVE concatTextContent(_)
concatTextContent(children) ==
  IF children = <<>> THEN <<>>
  ELSE getTextContent(Head(children)) \o concatTextContent(Tail(children))

getTextContent(node) ==
  IF node.type = "text" THEN replaceNbsp(node.data)
  ELSE IF node.type # "tag" THEN <<>>
  ELSE concatTextContent(node.children)

\* the cells of one tr: its td / th children
RECURSIVE rowCells(_)
rowCells(children) ==
  IF children = <<>> THEN <<>>
  ELSE LET cell == Head(children)
       IN (IF cell.type = "tag" /\ cell.name \in {S_td, S_th}
           THEN <<Str(trim(getTextContent(cell)))>> ELSE <<>>)
          \o rowCells(Tail(children))

RECURSIVE findRows(_)
findRows(children) ==
  IF children = <<>> THEN <<>>
  ELSE LET child == Head(children)
       IN (IF child.type = "tag" /\ child.name = S_tr
           THEN (IF rowCells(child.children) # <<>> THEN <<Arr(rowCells(child.children))>> ELSE <<>>)
           ELSE IF child.type = "tag" THEN findRows(child.children)
           ELSE <<>>)
          \o findRows(Tail(children))

processTable(tableNode) == Arr(findRows(tableNode.children))

HasKey(obj, key) == \E j \in 1..Len(obj.kv) : obj.kv[j].k = key
KeyIndex(obj, key) == CHOOSE j \in 1..Len(obj.kv) : obj.kv[j].k = key

addToResult(obj, key, value) ==
  IF HasKey(obj, key)
  THEN LET j == KeyIndex(obj, key)
           old == obj.kv[j].v
       IN IF old.t = "arr" /\ value.t # "arr"
          THEN Obj([obj.kv EXCEPT ![j] = [k |-> key, v |-> Arr(Append(old.items, value))]])
          ELSE Obj([obj.kv EXCEPT ![j] = [k |-> key, v |-> Arr(<<old, value>>)]])
  ELSE Obj(Append(obj.kv, [k |-> key, v |-> value]))

isMeaningful(c) ==
  IF c.type = "text" THEN trimJs(c.data) # <<>>
  ELSE IF c.type = "tag" THEN c.name \notin SKIP_TAGS /\ c.name \notin VOID_TAGS
  ELSE FALSE

getMeaningfulChildren(node) ==
  IF node.type = "tag" THEN SelectSeq(node.children, isMeaningful) ELSE <<>>

\* no wrapper is collapsed
collapseWrappersNever(node) == [tag |-> node.name, node |-> node]

RECURSIVE collapseWrappers(_)
collapseWrappers(node) ==
  LET meaningful == getMeaningfulChildren(node)
  IN IF Len(meaningful) = 1 /\ meaningful[1].type = "tag"
     THEN LET child == meaningful[1]
              grandchildren == getMeaningfulChildren(child)
          IN IF child.name = S_table THEN [tag |-> S_table, node |-> child]
             ELSE IF child.name \in TRANSPARENT_TAGS THEN collapseWrappers(child)
             ELSE IF Len(grandchildren) = 1 /\ grandchildren[1].type = "tag"
                  THEN collapseWrappers(child)
             ELSE [tag |-> child.name, node |-> child]
     ELSE [tag |-> IF node.name # <<>> THEN node.name ELSE S_root, node |-> node]

RECURSIVE mergeEntries(_, _)
mergeEntries(obj, entries) ==
  IF entries = <<>> THEN obj
  ELSE mergeEntries(addToResult(obj, Head(entries).k, Head(entries).v), Tail(entries))

flushPending(result, pendingText) ==
  IF pendingText # <<>> THEN addToResult(result, S_tagData, Str(pendingText)) ELSE result

RECURSIVE processChildren(_)
RECURSIVE processElement(_)
RECURSIVE processChildrenFrom(_, _, _, _)
processChildrenFrom(children, j, result, pendingText) ==
  IF j > Len(children) THEN flushPending(result, pendingText)
  ELSE LET child == children[j]
       IN IF child.type = "text"
          THEN LET text == trimJs(child.data)
               IN processChildrenFrom(children, j + 1, result,
                    IF text # <<>>
                    THEN pendingText \o (IF pendingText # <<>> THEN <<" ">> ELSE <<>>) \o text
                    ELSE pendingText)
          ELSE IF child.type # "tag" \/ child.name \in SKIP_TAGS \/ child.name \in VOID_TAGS
          THEN processChildrenFrom(children, j + 1, result, pendingText)
          ELSE LET flushed == flushPending(result, pendingText)
               IN IF child.name = S_table
                  THEN processChildrenFrom(children, j + 1,
                         addToResult(flushed, S_table, processTable(child)), <<>>)
                  ELSE IF child.name \in TRANSPARENT_TAGS
                  THEN processChildrenFrom(children, j + 1,
                         mergeEntries(flushed, processChildren(child.children).kv), <<>>)
                  ELSE LET c == collapseWrappers(child)
                       IN IF c.tag = S_table
                          THEN processChildrenFrom(children, j + 1,
                                 addToResult(flushed, S_table, processTable(c.node)), <<>>)
                          ELSE LET childResult == processElement(c.node)
                               IN processChildrenFrom(children, j + 1,
                                    IF childResult # JsNull
                                    THEN addToResult(flushed, c.tag, childResult)
                                    ELSE flushed, <<>>)

processChildren(children) == processChildrenFrom(children, 1, Obj(<<>>), <<>>)

processElement(node) ==
  LET meaningful == getMeaningfulChildren(node)
  IN IF \A j \in 1..Len(meaningful) : meaningful[j].type = "text"
     THEN LET text == trimJs(getTextContent(node))
          IN IF text # <<>> THEN Str(text) ELSE JsNull
     ELSE processChildren(node.children)

\* the reduction of parseHtmlToHierarchicalJson, from doc.children on
reduceDocument(children) ==
  LET result == processChildren(children)
  IN IF Len(result.kv) = 1 /\ result.kv[1].v.t = "obj" THEN result.kv[1].v ELSE result

(***************************************************************************)
(* parseDocument (htmlparser2), for markup without entities and comments:  *)
(* tags with optional attributes, closing tags, text.                      *)
(***************************************************************************)
Letters == LowerLetters \cup UpperLetters

\* elements that never have children and need no closing tag
HtmlVoidElements ==
  {S_area, S_base, S_br, S_col, S_embed, S_hr, S_img, S_input, S_link, S_meta,
   S_source, S_track, S_wbr}

\* the open elements that the opening of name closes
openImpliesClose(name) ==
  IF name = S_tr THEN {S_tr, S_th, S_td}
  ELSE IF name = S_th THEN {S_th}
  ELSE IF name = S_td THEN {S_thead, S_th, S_td}
  ELSE IF name = S_body THEN {S_head, S_link, S_script}
  ELSE IF name \in {S_p, S_div, S_h1, S_table, S_hr} THEN {S_p}
  ELSE IF name \in {S_tbody, S_tfoot} THEN {S_thead, S_tbody}
  ELSE {}

RECURSIVE tokens(_, _)
tokens(s, j) ==
  IF j > Len(s) THEN <<>>
  ELSE IF s[j] = "<" /\ j < Len(s) /\ s[j + 1] \in Letters
  THEN LET gt == IndexFrom(s, j + 1, {">"})
           nameEnd == IndexFrom(s, j + 1, Whitespace \cup {"/", ">"})
       IN IF gt > Len(s) THEN <<>>
          ELSE <<[k |-> "open", name |-> toLowerCase(SubSeq(s, j + 1, nameEnd - 1))]>>
               \o tokens(s, gt + 1)
  ELSE IF s[j] = "<" /\ j + 1 < Len(s) /\ s[j + 1] = "/" /\ s[j + 2] \in Letters
  THEN LET gt == IndexFrom(s, j + 2, {">"})
           nameEnd == IndexFrom(s, j + 2, Whitespace \cup {">"})
       IN IF gt > Len(s) THEN <<>>
          ELSE <<[k |-> "close", name |-> toLowerCase(SubSeq(s, j + 2, nameEnd - 1))]>>
               \o tokens(s, gt + 1)
  ELSE LET lt == IndexFrom(s, j + 1, {"<"})
       IN <<[k |-> "text", data |-> SubSeq(s, j, lt - 1)]>> \o tokens(s, lt)

\* adjacent text is one text node
appendChild(children, node) ==
  IF node.type = "text" /\ children # <<>> /\ children[Len(children)].type = "text"
  THEN [children EXCEPT ![Len(children)] = Text(children[Len(children)].data \o node.data)]
  ELSE Append(children, node)

\* the stack of open elements, the document itself at the bottom
addToTop(stack, node) ==
  [stack EXCEPT ![Len(stack)] = [name |-> @.name, children |-> appendChild(@.children, node)]]

closeTop(stack) ==
  addToTop(SubSeq(stack, 1, Len(stack) - 1),
           Tag(stack[Len(stack)].name, stack[Len(stack)].children))

RECURSIVE closeImplied(_, _)
closeImplied(stack, set) ==
  IF Len(stack) > 1 /\ stack[Len(stack)].name \in set
  THEN closeImplied(closeTop(stack), set) ELSE stack

RECURSIVE closeUntil(_, _)
closeUntil(stack, name) ==
  IF stack[Len(stack)].name = name THEN closeTop(stack)
  ELSE closeUntil(closeTop(stack), name)

RECURSIVE closeAll(_)
closeAll(stack) == IF Len(stack) > 1 THEN closeAll(closeTop(stack)) ELSE stack

RECURSIVE build(_, _, _)
build(toks, j, stack) ==
  IF j > Len(toks) THEN closeAll(stack)
  ELSE LET tok == toks[j]
       IN IF tok.k = "text" THEN build(toks, j + 1, addToTop(stack, Text(tok.data)))
          ELSE IF tok.k = "open"
          THEN LET closed == closeImplied(stack, openImpliesClose(tok.name))
               IN IF tok.name \in HtmlVoidElements
                  THEN build(toks, j + 1, addToTop(closed, Tag(tok.name, <<>>)))
                  ELSE build(toks, j + 1, Append(closed, [name |-> tok.name, children |-> <<>>]))
          ELSE IF tok.name \in HtmlVoidElements
          THEN build(toks, j + 1,
                     IF tok.name = S_br THEN addToTop(stack, Tag(S_br, <<>>)) ELSE stack)
          ELSE IF \E m \in 2..Len(stack) : stack[m].name = tok.name
          THEN build(toks, j + 1, closeUntil(stack, tok.name))
          ELSE build(toks, j + 1,
                     IF tok.name = S_p THEN addToTop(stack, Tag(S_p, <<>>)) ELSE stack)

parseDocument(htmlContent) ==
  build(tokens(htmlContent, 1), 1, <<[name |-> <<>>, children |-> <<>>]>>)[1].children

parseHtmlToHierarchicalJson(htmlContent) ==
  IF htmlContent = <<>> THEN Obj(<<>>) ELSE reduceDocument(parseDocument(htmlContent))

(***************************************************************************)
(* sanitizeHtml (html-to-text with the selectors of the code).  The text   *)
(* is produced as a stream of characters and line-break requests; requests *)
(* that meet are one request for the larger number of breaks, white space  *)
(* collapses, and nothing is produced before the first or after the last   *)
(* visible character.                                                      *)
(***************************************************************************)
BR1 == "break-1"
BR2 == "break-2"
InlineSpace == {" ", "\t", "\r", NBSP}

\* .replace(/\s+/g, ' ').trim()
RECURSIVE collapseFrom(_, _)
collapseFrom(s, j) ==
  IF j > Len(s) THEN <<>>
  ELSE IF s[j] \in Whitespace \cup {NBSP}
  THEN LET next == FirstOutside(s, j, Whitespace \cup {NBSP})
       IN IF next > Len(s) THEN <<>> ELSE <<" ">> \o collapseFrom(s, next)
  ELSE <<s[j]>> \o collapseFrom(s, j + 1)

collapseSpaces(s) == collapseFrom(s, FirstOutside(s, 1, Whitespace \cup {NBSP}))

\* getCellText of the dataTable formatter
RECURSIVE extractText(_)
extractText(children) ==
  IF children = <<>> THEN <<>>
  ELSE (IF Head(children).type = "text" THEN Head(children).data
        ELSE IF Head(children).type = "tag" THEN extractText(Head(children).children)
        ELSE <<>>) \o extractText(Tail(children))

\* takes td cells only
RECURSIVE dataTableCellsTdOnly(_)
dataTableCellsTdOnly(children) ==
  IF children = <<>> THEN <<>>
  ELSE (IF Head(children).type = "tag" /\ Head(children).name = S_td
        THEN <<collapseSpaces(extractText(Head(children).children))>> ELSE <<>>)
       \o dataTableCellsTdOnly(Tail(children))

RECURSIVE dataTableCells(_)
dataTableCells(children) ==
  IF children = <<>> THEN <<>>
  ELSE (IF Head(children).type = "tag" /\ Head(children).name \in {S_td, S_th}
        THEN <<collapseSpaces(extractText(Head(children).children))>> ELSE <<>>)
       \o dataTableCells(Tail(children))

\* processRows of the dataTable formatter: one line '| a | b |' per row with cells
RECURSIVE dataTableRows(_)
dataTableRows(children) ==
  IF children = <<>> THEN <<>>
  ELSE LET node == Head(children)
       IN (IF node.type = "tag" /\ node.name = S_tr
           THEN (IF dataTableCells(node.children) # <<>>
                 THEN <<<<"|", " ">> \o join(dataTableCells(node.children), <<" ", "|", " ">>)
                        \o <<" ", "|">>>>
                 ELSE <<>>)
           ELSE IF node.type = "tag" THEN dataTableRows(node.children)
           ELSE <<>>)
          \o dataTableRows(Tail(children))

leadingLineBreaks(name) ==
  IF name \in {S_p, S_div, S_br, S_table} THEN <<BR1>>
  ELSE IF name \in {S_h1, S_h2, S_h3} THEN <<BR2>>
  ELSE <<>>

trailingLineBreaks(name) ==
  IF name \in {S_p, S_div, S_h3, S_table} THEN <<BR1>>
  ELSE IF name \in {S_h1, S_h2} THEN <<BR2>>
  ELSE <<>>

RECURSIVE walk(_)
walk(children) ==
  IF children = <<>> THEN <<>>
  ELSE LET node == Head(children)
       IN (IF node.type = "text"
           THEN [j \in 1..Len(node.data) |-> IF node.data[j] = "\n" THEN BR1 ELSE node.data[j]]
           ELSE IF node.type # "tag" \/ node.name \in {S_style, S_script} THEN <<>>
           ELSE leadingLineBreaks(node.name)
                \o (IF node.name = S_table
                    THEN join(dataTableRows(node.children), <<BR1>>)
                    ELSE walk(node.children))
                \o trailingLineBreaks(node.name))
          \o walk(Tail(children))

\* what separates the visible character at j from the visible character before it
separator(stream, j) ==
  LET prev == LastOutside(stream, j - 1, InlineSpace \cup {BR1, BR2})
      between == {stream[m] : m \in (prev + 1)..(j - 1)}
  IN IF j = 1 \/ stream[j - 1] \notin InlineSpace \cup {BR1, BR2} THEN <<>>
     ELSE IF prev = 0 THEN <<>>
     ELSE IF BR2 \in between THEN <<"\n", "\n">>
     ELSE IF BR1 \in between THEN <<"\n">>
     ELSE IF between # {} THEN <<" ">>
     ELSE <<>>

\* the text of stream[lo..hi]
RECURSIVE render(_, _, _)
render(stream, lo, hi) ==
  IF lo > hi THEN <<>>
  ELSE IF lo = hi
  THEN (IF stream[lo] \in InlineSpace \cup {BR1, BR2} THEN <<>>
        ELSE Append(separator(stream, lo), stream[lo]))
  ELSE render(stream, lo, (lo + hi) \div 2) \o render(stream, (lo + hi) \div 2 + 1, hi)

sanitizeHtml(htmlContent) ==
  IF htmlContent = <<>> THEN htmlContent
  ELSE LET stream == walk(parseDocument(htmlContent))
       IN render(stream, 1, Len(stream))

\* any '<' with a later '>' counts as markup
looksLikeHtmlAnyAngle(s) ==
  \E j \in 1..Len(s) : s[j] = "<" /\ IndexFrom(s, j + 1, {">"}) <= Len(s)

\* /<[a-z][\s\S]*>/i.test(s)
looksLikeHtml(s) ==
  \E j \in 1..Len(s) :
    /\ s[j] = "<"
    /\ j < Len(s)
    /\ s[j + 1] \in Letters
    /\ IndexFrom(s, j + 2, {">"}) <= Len(s)

(***************************************************************************)
(* parseHtmlTablesToColumnarJson: regular expressions on the HTML text     *)
(***************************************************************************)
S_tableOpen == <<"<", "t", "a", "b", "l", "e">>
S_tableClose == <<"<", "/", "t", "a", "b", "l", "e", ">">>
S_trOpen == <<"<", "t", "r">>
S_trClose == <<"<", "/", "t", "r", ">">>
S_thOpen == <<"<", "t", "h">>
S_tdOpen == <<"<", "t", "d">>
S_thClose == <<"<", "/", "t", "h", ">">>
S_tdClose == <<"<", "/", "t", "d", ">">>

\* pat, given in lower case, is at index j of s, letter case ignored
MatchesAt(s, j, pat) ==
  /\ j + Len(pat) - 1 <= Len(s)
  /\ \A m \in 1..Len(pat) :
       (IF s[j + m - 1] \in UpperLetters THEN LowerOf[s[j + m - 1]] ELSE s[j + m - 1]) = pat[m]

\* the first index >= j of s where one of pats is, Len(s) + 1 if none
Find(s, j, pats) ==
  LET hits == {m \in j..Len(s) : \E pat \in pats : MatchesAt(s, m, pat)}
  IN IF hits = {} THEN Len(s) + 1 ELSE Least(hits)

\* the captures (.*?) of /<open[^>]*>(.*?)<\/close>/gis, in order
RECURSIVE captures(_, _, _, _)
captures(s, j, open, close) ==
  LET start == Find(s, j, {open})
      gt == IndexFrom(s, start + Len(open), {">"})
      end == Find(s, gt + 1, {close})
  IN IF start > Len(s) \/ gt > Len(s) \/ end > Len(s) THEN <<>>
     ELSE <<SubSeq(s, gt + 1, end - 1)>> \o captures(s, end + Len(close), open, close)

\* the first index >= j of s where pat is, letter for letter, Len(s) + 1 if none
indexOf(s, j, pat) ==
  LET hits == {m \in j..(Len(s) - Len(pat) + 1) : SubSeq(s, m, m + Len(pat) - 1) = pat}
  IN IF hits = {} THEN Len(s) + 1 ELSE Least(hits)

\* .replace(pat, rep), every occurrence
RECURSIVE replaceAll(_, _, _)
replaceAll(s, pat, rep) ==
  LET at == indexOf(s, 1, pat)
  IN IF at > Len(s) THEN s
     ELSE SubSeq(s, 1, at - 1) \o rep \o replaceAll(SubSeq(s, at + Len(pat), Len(s)), pat, rep)

\* .replace(/<[^>]+>/g, '')
RECURSIVE removeTags(_, _)
removeTags(s, j) ==
  IF j > Len(s) THEN <<>>
  ELSE LET gt == IndexFrom(s, j + 1, {">"})
       IN IF s[j] = "<" /\ gt <= Len(s) /\ gt > j + 1 THEN removeTags(s, gt + 1)
          ELSE <<s[j]>> \o removeTags(s, j + 1)

cellText(inner) ==
  collapseSpaces(
    replaceAll(replaceAll(replaceAll(replaceAll(replaceAll(replaceAll(removeTags(inner, 1),
      <<"&", "n", "b", "s", "p", ";">>, <<" ">>),
      <<"&", "a", "m", "p", ";">>, <<"&">>),
      <<"&", "l", "t", ";">>, <<"<">>),
      <<"&", "g", "t", ";">>, <<">">>),
      <<"&", "q", "u", "o", "t", ";">>, <<"\"">>),
      <<"&", "#", "3", "9", ";">>, <<"'">>))

\* the cells of one row: /<(th|td)[^>]*>(.*?)<\/\1>/gis
RECURSIVE rowCellTexts(_, _)
rowCellTexts(row, j) ==
  LET start == Find(row, j, {S_thOpen, S_tdOpen})
      close == IF start <= Len(row) /\ MatchesAt(row, start, S_thOpen) THEN S_thClose ELSE S_tdClose
      gt == IndexFrom(row, start + 3, {">"})
      end == Find(row, gt + 1, {close})
  IN IF start > Len(row) \/ gt > Len(row) THEN <<>>
     ELSE IF end > Len(row) THEN rowCellTexts(row, start + 1)
     ELSE <<cellText(SubSeq(row, gt + 1, end - 1))>> \o rowCellTexts(row, end + Len(close))

\* the property names every object literal inherits: result[name] is not
\* undefined for them although result = {} has no such key of its own
S_constructor == <<"c", "o", "n", "s", "t", "r", "u", "c", "t", "o", "r">>
ObjectPrototypeKeys ==
  {S_constructor,
   <<"_", "_", "p", "r", "o", "t", "o", "_", "_">>,
   <<"t", "o", "S", "t", "r", "i", "n", "g">>,
   <<"v", "a", "l", "u", "e", "O", "f">>,
   <<"h", "a", "s", "O", "w", "n", "P", "r", "o", "p", "e", "r", "t", "y">>,
   <<"i", "s", "P", "r", "o", "t", "o", "t", "y", "p", "e", "O", "f">>,
   <<"p", "r", "o", "p", "e", "r", "t", "y", "I", "s", "E", "n", "u", "m", "e", "r", "a", "b", "l", "e">>,
   <<"t", "o", "L", "o", "c", "a", "l", "e", "S", "t", "r", "i", "n", "g">>,
   <<"_", "_", "d", "e", "f", "i", "n", "e", "G", "e", "t", "t", "e", "r", "_", "_">>,
   <<"_", "_", "d", "e", "f", "i", "n", "e", "S", "e", "t", "t", "e", "r", "_", "_">>,
   <<"_", "_", "l", "o", "o", "k", "u", "p", "G", "e", "t", "t", "e", "r", "_", "_">>,
   <<"_", "_", "l", "o", "o", "k", "u", "p", "S", "e", "t", "t", "e", "r", "_", "_">>}

\* a TypeError thrown by the call
TypeError == [t |-> "throw"]

\* headers.forEach(header => { if (!result[header]) result[header] = []; })
RECURSIVE addHeaders(_, _, _)
addHeaders(result, headers, j) ==
  IF j > Len(headers) THEN result
  ELSE addHeaders(IF HasKey(result, headers[j]) \/ headers[j] \in ObjectPrototypeKeys THEN result
                  ELSE Obj(Append(result.kv, [k |-> headers[j], v |-> Arr(<<>>)])),
                  headers, j + 1)

\* headers.forEach((header, colIndex) => result[header].push(row[colIndex] || ''));
\* result[header] of an inherited name has no push
RECURSIVE pushRow(_, _, _, _)
pushRow(result, headers, row, j) ==
  IF j > Len(headers) THEN result
  ELSE IF ~HasKey(result, headers[j]) THEN TypeError
  ELSE LET at == KeyIndex(result, headers[j])
           cell == IF j <= Len(row) THEN row[j] ELSE <<>>
       IN pushRow(Obj([result.kv EXCEPT ![at] =
                         [k |-> @.k, v |-> Arr(Append(@.v.items, Str(cell)))]]),
                  headers, row, j + 1)

RECURSIVE pushRows(_, _, _, _)
pushRows(result, headers, parsedRows, r) ==
  IF r > Len(parsedRows) \/ result = TypeError THEN result
  ELSE pushRows(pushRow(result, headers, parsedRows[r], 1), headers, parsedRows, r + 1)

RECURSIVE mergeTables(_, _, _)
mergeTables(result, tables, t) ==
  IF t > Len(tables) \/ result = TypeError THEN result
  ELSE LET rows == captures(tables[t], 1, S_trOpen, S_trClose)
           parsedRows == [r \in 1..Len(rows) |-> rowCellTexts(rows[r], 1)]
       IN IF rows = <<>> \/ parsedRows[1] = <<>> THEN mergeTables(result, tables, t + 1)
          ELSE mergeTables(pushRows(addHeaders(result, parsedRows[1], 1), parsedRows[1],
                                    parsedRows, 2),
                           tables, t + 1)

parseHtmlTablesToColumnarJson(htmlContent) ==
  IF htmlContent = <<>> THEN Obj(<<>>)
  ELSE mergeTables(Obj(<<>>), captures(htmlContent, 1, S_tableOpen, S_tableClose), 1)

(***************************************************************************)
(* The body: projection, content test, preview                             *)
(***************************************************************************)
MAX_BODY_PREVIEW_LENGTH == 200

\* !value
Falsy(value) == value \in {Str(<<>>), JsNull, JsFalse}

\* sanitizes whatever --html says
processBodyIgnoresHtmlMode(bodyContent, isHtml) ==
  IF Falsy(bodyContent) THEN bodyContent
  ELSE IF jsonMode = "html" /\ isHtml THEN parseHtmlToHierarchicalJson(bodyContent.s)
  ELSE IF jsonMode = "table" /\ isHtml THEN parseHtmlTablesToColumnarJson(bodyContent.s)
  ELSE IF isHtml THEN Str(sanitizeHtml(bodyContent.s))
  ELSE bodyContent

processBody(bodyContent, isHtml) ==
  IF Falsy(bodyContent) THEN bodyContent
  ELSE IF jsonMode = "html" /\ isHtml THEN parseHtmlToHierarchicalJson(bodyContent.s)
  ELSE IF jsonMode = "table" /\ isHtml THEN parseHtmlTablesToColumnarJson(bodyContent.s)
  ELSE IF isHtml /\ ~htmlMode THEN Str(sanitizeHtml(bodyContent.s))
  ELSE bodyContent

hasBodyContent(b) ==
  IF Falsy(b) THEN FALSE
  ELSE IF b.t = "str" THEN Len(trimJs(b.s)) > 0
  ELSE IF b.t = "obj" THEN Len(b.kv) > 0
  ELSE IF b.t = "arr" THEN Len(b.items) > 0
  ELSE TRUE

\* previews a text of exactly the limit too
truncateBodyCutsAtLimit(bodyText) ==
  IF fullBody \/ htmlMode \/ emailNumber # JsNull THEN bodyText
  ELSE IF Falsy(bodyText) THEN bodyText
  ELSE IF bodyText.t \in {"obj", "arr"} THEN bodyText
  ELSE IF Len(bodyText.s) < MAX_BODY_PREVIEW_LENGTH THEN bodyText
  ELSE Str(SubSeq(bodyText.s, 1, MAX_BODY_PREVIEW_LENGTH) \o <<".", ".", ".">>)

\* previews whatever -f and --html say
truncateBodyIgnoresFlags(bodyText) ==
  IF Falsy(bodyText) THEN bodyText
  ELSE IF bodyText.t \in {"obj", "arr"} THEN bodyText
  ELSE IF Len(bodyText.s) <= MAX_BODY_PREVIEW_LENGTH THEN bodyText
  ELSE Str(SubSeq(bodyText.s, 1, MAX_BODY_PREVIEW_LENGTH) \o <<".", ".", ".">>)

truncateBody(bodyText) ==
  IF fullBody \/ htmlMode \/ emailNumber # JsNull THEN bodyText
  ELSE IF Falsy(bodyText) THEN bodyText
  ELSE IF bodyText.t \in {"obj", "arr"} THEN bodyText
  ELSE IF Len(bodyText.s) <= MAX_BODY_PREVIEW_LENGTH THEN bodyText
  ELSE Str(SubSeq(bodyText.s, 1, MAX_BODY_PREVIEW_LENGTH) \o <<".", ".", ".">>)

getDefaultCount ==
  IF jsonMode \in {"html", "table"} THEN 25
  ELSE IF fullBody \/ htmlMode \/ jsonMode = "default" THEN 20
  ELSE 100

\* Array.prototype.slice(-n), n > 0
\* list.slice(-n): -0 is 0, so slice(-0) is the whole list
sliceLast(list, n) ==
  IF n = 0 \/ n >= Len(list) THEN list ELSE SubSeq(list, Len(list) - n + 1, Len(list))

\* no count, no option word, no -a and no filter on the command line
DefaultOptions ==
  /\ count = getDefaultCount
  /\ extract = "all"
  /\ attachmentDownload = FALSE
  /\ fromFilter = JsNull
  /\ subjectFilter = JsNull
  /\ attachmentFilter = FALSE

NothingOut == terminal = <<>> /\ downloaded = <<>>

\* a file of the file system: absent, or present with the content it had
\* before the run (old) or with the lines appended since it was emptied
Absent == [exists |-> FALSE, old |-> FALSE, lines |-> 0]
Existing == [exists |-> TRUE, old |-> TRUE, lines |-> 0]

\* no -o: output goes to the console
Console ==
  /\ outputOption = JsNull
  /\ outputWriter = [enabled |-> FALSE, initialized |-> FALSE]
  /\ outputFile = Absent

NotConnected == conn = [opened |-> FALSE, ended |-> 0]
Connected == conn = [opened |-> TRUE, ended |-> 0]

(***************************************************************************)
(* Inputs of the navigator and the attachment resolver                     *)
(***************************************************************************)
MaxNest == 2

S_APPLICATION == <<"A", "P", "P", "L", "I", "C", "A", "T", "I", "O", "N">>
S_Attachment == <<"A", "t", "t", "a", "c", "h", "m", "e", "n", "t">>
S_PDF == <<"P", "D", "F">>
S_pdf == <<"p", "d", "f">>
S_multipart == <<"m", "u", "l", "t", "i", "p", "a", "r", "t">>
S_mixed == <<"m", "i", "x", "e", "d">>
S_a_txt == <<"a", ".", "t", "x", "t">>
S_n_pdf == <<"n", ".", "p", "d", "f">>
S_f_doc == <<"f", ".", "d", "o", "c">>
S_inv_pdf == <<"i", "n", "v", ".", "p", "d", "f">>
S_rawMime == <<"M", "I", "M", "E">>

\* parts without any filename, of every type, subtype and disposition
UnnamedLeaves ==
  {Part(1, ty, st, [type |-> dt, filename |-> <<>>], NoParams, <<>>) :
     ty \in {S_text, S_application, S_APPLICATION},
     st \in {<<>>, S_plain, S_PDF},
     dt \in {<<>>, S_attachment, S_Attachment, S_inline}}

\* text parts with every combination of the three filename hints
NamedLeaves ==
  {Part(1, S_text, st, [type |-> dt, filename |-> df], [name |-> pn, filename |-> pf], <<>>) :
     st \in {<<>>, S_PDF},
     dt \in {<<>>, S_attachment, S_inline},
     df \in {<<>>, S_a_txt}, pn \in {<<>>, S_n_pdf}, pf \in {<<>>, S_f_doc}}

LeafVariants == UnnamedLeaves \cup NamedLeaves

TextPlainLeaf(id) == Part(id, S_text, S_plain, NoDisposition, NoParams, <<>>)
TextHtmlLeaf(id) == Part(id, S_text, S_html, NoDisposition, NoParams, <<>>)
PdfAttachmentLeaf(id) ==
  Part(id, S_application, S_pdf, [type |-> S_attachment, filename |-> S_inv_pdf],
       [name |-> S_inv_pdf, filename |-> <<>>], <<>>)
Multipart(id, parts) == Part(id, S_multipart, S_mixed, NoDisposition, NoParams, parts)

\* a node wrapped in n levels of raw arrays
RECURSIVE Nest(_, _)
Nest(n, node) == IF n = 0 THEN node ELSE ArrayOf(<<Nest(n - 1, node)>>)

SiblingLeaves == {TextPlainLeaf(2), PdfAttachmentLeaf(2)}

\* attachment filenames that are paths: into a directory below, to the
\* directory above, and up twice
S_sub_name == <<"d", "/", "e">>
S_up_name == <<".", ".", "/", "e">>
S_up2_name == <<"d", "/", ".", ".", "/", ".", ".", "/", "e">>
PathLikeNames == {S_sub_name, S_up_name, S_up2_name}

AttachmentNamed(id, name) ==
  Part(id, S_application, S_pdf, [type |-> S_attachment, filename |-> name], NoParams, <<>>)

Structs ==
  {<<a>> : a \in LeafVariants}
  \cup {<<Multipart(3, <<b, a>>)>> : a \in LeafVariants, b \in SiblingLeaves}
  \cup {<<Multipart(3, <<>>), ArrayOf(<<b>>), Nest(n, a)>> :
          a \in LeafVariants, b \in SiblingLeaves, n \in 1..MaxNest}
  \cup {<<[a EXCEPT !.parts = <<b>>]>> : a \in LeafVariants, b \in SiblingLeaves}
  \cup {<<Multipart(1, <<TextPlainLeaf(2), TextHtmlLeaf(3)>>), PdfAttachmentLeaf(4)>>,
        <<TextHtmlLeaf(1), ArrayOf(<<TextPlainLeaf(2)>>), TextHtmlLeaf(3), TextPlainLeaf(4)>>}
  \cup {<<Multipart(1, <<TextPlainLeaf(2), PdfAttachmentLeaf(3), AttachmentNamed(4, name)>>)>> :
          name \in PathLikeNames}

HeaderPart == [which |-> "HEADER.FIELDS (FROM TO SUBJECT DATE)", body |-> <<>>]
FetchedParts ==
  {<<HeaderPart>>,
   <<HeaderPart, [which |-> "TEXT", body |-> <<"h", "i">>], [which |-> "", body |-> <<" ">>]>>,
   <<HeaderPart, [which |-> "", body |-> S_rawMime]>>}

RawAnswer == <<[parts |-> <<[which |-> "", body |-> S_rawMime]>>]>>
RefetchAnswers == {<<>>, <<[parts |-> <<HeaderPart>>]>>, RawAnswer}

ParsedAttachments == {<<>>, <<<<>>>>, <<S_a_txt>>, <<S_a_txt, <<>>, S_n_pdf>>}

\* a call that throws returns nothing
AttachmentIO ==
  {io \in [refetchThrows : BOOLEAN, refetch : RefetchAnswers,
           parseThrows : BOOLEAN, parsed : ParsedAttachments] :
     /\ io.refetchThrows => io.refetch = <<>>
     /\ io.parseThrows => io.parsed = <<>>}

\* no run of extractEmail() is under way
RunIdle ==
  /\ fullBody = FALSE
  /\ htmlMode = FALSE
  /\ jsonMode = "null"
  /\ emailNumber = JsNull
  /\ messages = <<>>
  /\ lastMessages = <<>>
  /\ pc = "idle"
  /\ i = 0
  /\ body = Str(<<>>)
  /\ calls = <<>>
  /\ currentAttachmentSummary = JsFalse
  /\ emailCount = 0
  /\ outputBody = JsNull
  /\ DefaultOptions
  /\ NothingOut
  /\ Console
  /\ NotConnected

JsonIdle ==
  /\ headerBody = <<>>
  /\ jsonEmail = JsNull
  /\ jpc = "idle"

HtmlIdle ==
  /\ doc = <<>>
  /\ hpc = "idle"
  /\ json = JsNull

InitStruct ==
  /\ JsonIdle
  /\ HtmlIdle
  /\ RunIdle
  /\ msg \in [uid : {0, 7}, struct : Structs, parts : FetchedParts]
  /\ spc = "in"
  /\ attachments = <<>>
  /\ names = <<>>
  /\ summary = [ret |-> JsFalse, calls |-> <<>>]

CallFindAttachments ==
  /\ spc = "in"
  /\ attachments' = findAttachmentsInStruct(msg.struct, <<>>)
  /\ spc' = "found"
  /\ UNCHANGED <<jsonVars, msg, names, summary, htmlVars, runVars>>

CallGetAttachmentFilename ==
  /\ spc = "found"
  /\ names' = [j \in 1..Len(attachments) |-> getAttachmentFilename(attachments[j])]
  /\ spc' = "named"
  /\ UNCHANGED <<jsonVars, msg, attachments, summary, htmlVars, runVars>>

CallGetAttachmentSummaryFromMessage ==
  /\ spc = "named"
  /\ \E connection \in BOOLEAN, io \in AttachmentIO :
       summary' = getAttachmentSummaryFromMessage(msg, connection, io) @@ [io |-> io]
  /\ spc' = "summarised"
  /\ UNCHANGED <<jsonVars, msg, attachments, names, htmlVars, runVars>>

CallDownloadAttachments ==
  /\ spc = "named"
  /\ \E succeed \in SUBSET (1..Len(attachments)) :
       downloaded' = downloadAttachments(msg, downloadDir, succeed)
  /\ spc' = "downloaded"
  /\ UNCHANGED <<msg, attachments, names, summary, htmlVars, jsonVars, flagVars, ioVars, terminal,
                 messages, lastMessages, pc, i, body, calls, currentAttachmentSummary, emailCount,
                 outputBody>>

NextStruct ==
  \/ CallFindAttachments
  \/ CallGetAttachmentFilename
  \/ CallGetAttachmentSummaryFromMessage
  \/ CallDownloadAttachments

SpecStruct == InitStruct /\ [][NextStruct]_vars

(***************************************************************************)
(* Properties of the navigator and the attachment resolver                 *)
(***************************************************************************)
\* every part of a struct, depth first, raw arrays flattened
RECURSIVE AllParts(_)
AllParts(parts) ==
  IF parts = <<>> THEN <<>>
  ELSE LET h == Head(parts)
       IN (IF h.k = "array" THEN AllParts(h.items) ELSE <<h>> \o AllParts(h.parts))
          \o AllParts(Tail(parts))

HasDispositionFilename(p) == p.disposition.filename # <<>>
HasParamsName(p) == p.params.name # <<>> \/ p.params.filename # <<>>
DispositionIs(p, kind) == toLowerCase(p.disposition.type) = kind
IsApplicationType(p) == toLowerCase(p.type) = S_application

Rule1(p) == DispositionIs(p, S_attachment)
Rule2(p) == HasDispositionFilename(p) \/ HasParamsName(p)
Rule3(p) == DispositionIs(p, S_inline) /\ (HasDispositionFilename(p) \/ HasParamsName(p) \/ IsApplicationType(p))
Rule4(p) == IsApplicationType(p) /\ p.subtype # <<>>

Occurrences(list, p) == Cardinality({j \in 1..Len(list) : list[j].id = p.id})

\* C7: findAttachmentsInStruct returns a part if and only if one of the four
\* rules holds for it (disposition attachment; a filename in the disposition or
\* in params.name / params.filename; disposition inline with a filename or type
\* application; type application with a subtype), and returns it exactly once.
Thm_C7 ==
  spc \in {"found", "named", "summarised"} =>
    LET all == AllParts(msg.struct)
    IN /\ \A j \in 1..Len(all) :
            Occurrences(attachments, all[j]) =
              IF Rule1(all[j]) \/ Rule2(all[j]) \/ Rule3(all[j]) \/ Rule4(all[j]) THEN 1 ELSE 0
       /\ \A j \in 1..Len(attachments) : \E m \in 1..Len(all) : all[m] = attachments[j]

\* a part inside nested raw arrays is returned by rule 4 alone, next to a part
\* that is returned and a container that is not
Wit_C7 ==
  /\ spc = "found"
  /\ Len(attachments) = 2
  /\ Len(AllParts(msg.struct)) = 3
  /\ Len(msg.struct) = 3
  /\ \E n \in 2..MaxNest : \E a \in UnnamedLeaves :
       /\ msg.struct[3] = Nest(n, a)
       /\ Rule4(a) /\ ~Rule1(a) /\ ~Rule2(a) /\ ~Rule3(a)
       /\ attachments[2] = a

\* C8: getAttachmentFilename resolves the name by strict precedence:
\* disposition filename, else params.name, else params.filename, else
\* "attachment." + lower-cased subtype, else "attachment"; never empty.
Thm_C8 ==
  spc \in {"named", "summarised"} =>
    /\ Len(names) = Len(attachments)
    /\ \A j \in 1..Len(names) :
         LET a == attachments[j]
             n == names[j]
         IN /\ n # <<>>
            /\ a.disposition.filename # <<>> => n = a.disposition.filename
            /\ a.disposition.filename = <<>> /\ a.params.name # <<>> => n = a.params.name
            /\ a.disposition.filename = <<>> /\ a.params.name = <<>> /\ a.params.filename # <<>>
                 => n = a.params.filename
            /\ a.disposition.filename = <<>> /\ a.params.name = <<>> /\ a.params.filename = <<>>
                 => IF a.subtype # <<>>
                    THEN /\ Len(n) = Len(S_attachmentDot) + Len(a.subtype)
                         /\ SubSeq(n, 1, Len(S_attachmentDot)) = S_attachmentDot
                         /\ \A m \in 1..Len(a.subtype) :
                              /\ n[Len(S_attachmentDot) + m] \notin UpperLetters
                              /\ a.subtype[m] \in {n[Len(S_attachmentDot) + m]} \cup UpperLetters
                    ELSE n = S_attachment

\* an attachment with no disposition filename but both params.name and
\* params.filename: params.name is the one returned
Wit_C8 ==
  /\ spc = "named"
  /\ \E j \in 1..Len(attachments) :
       /\ attachments[j].disposition.filename = <<>>
       /\ attachments[j].params.name = S_n_pdf
       /\ attachments[j].params.filename = S_f_doc
       /\ names[j] = S_n_pdf

RECURSIVE CommaJoined(_)
CommaJoined(list) ==
  IF Len(list) = 1 THEN list[1]
  ELSE CommaJoined(SubSeq(list, 1, Len(list) - 1)) \o <<",", " ">> \o list[Len(list)]

RawParseFoundAttachment ==
  /\ \E j \in 1..Len(summary.calls) : summary.calls[j] = "simpleParser"
  /\ ~summary.io.parseThrows
  /\ summary.io.parsed # <<>>

\* C9: the attachment summary is false when neither the struct nor the parse of
\* the raw message finds an attachment; when the struct yields n >= 1
\* attachments it is their filenames in traversal order joined with ", "
\* (the bare name when n = 1).
Thm_C9 ==
  spc = "summarised" =>
    /\ attachments # <<>> => summary.ret = Str(CommaJoined(names))
    /\ attachments = <<>> /\ ~RawParseFoundAttachment => summary.ret = JsFalse

\* two attachments in the struct: the summary is "<first>, <second>"
Wit_C9 ==
  /\ spc = "summarised"
  /\ Len(attachments) = 2
  /\ names[1] # names[2]
  /\ summary.ret = Str(names[1] \o <<",", " ">> \o names[2])

(***************************************************************************)
(* Inputs of the hierarchical JSON structurer                              *)
(***************************************************************************)
MaxChain == 3

S_hi == <<"h", "i">>
S_css == <<"c", "s", "s">>

RegularTags == {S_div, S_p, S_span}

\* parseDocument closes an open p when a p or a div opens directly inside it,
\* so no document has such a nesting
Nestable(tags) == \A j \in 1..(Len(tags) - 1) : tags[j] = S_p => tags[j + 1] \notin {S_p, S_div}

\* sequences of regular tags, outermost first
TagChains == {tags \in UNION {[1..n -> RegularTags] : n \in 1..MaxChain} : Nestable(tags)}

\* what the innermost element of a chain holds: text, void elements, comments
LeafContents ==
  {<<>>, <<Text(S_hi)>>, <<Text(<<" ", "h", "i", "\n">>)>>, <<Text(<<" ", NBSP>>)>>,
   <<Text(<<"a">>), Tag(S_br, <<>>), Text(<<"b", " ">>)>>, <<Comment(S_hi)>>}

\* children without meaning that surround the one child element of a wrapper
Noise ==
  {[before |-> <<>>, after |-> <<>>],
   [before |-> <<Text(<<"\n", " ">>)>>, after |-> <<Text(<<"\n">>)>>],
   [before |-> <<Tag(S_br, <<>>)>>, after |-> <<Comment(S_hi)>>],
   [before |-> <<Tag(S_style, <<Text(S_css)>>)>>, after |-> <<Tag(S_img, <<>>)>>]}

RECURSIVE BuildChain(_, _, _)
BuildChain(tags, leaf, noise) ==
  IF Len(tags) = 1 THEN Tag(tags[1], leaf)
  ELSE Tag(tags[1], noise.before \o <<BuildChain(Tail(tags), leaf, noise)>> \o noise.after)

ChainDoc(tags, leaf, noise) == noise.before \o <<BuildChain(tags, leaf, noise)>> \o noise.after

ChainDocs == {ChainDoc(tags, leaf, noise) : tags \in TagChains, leaf \in LeafContents, noise \in Noise}

Cell(name, s) == Tag(name, <<Text(s)>>)
TableAB ==
  Tag(S_table, <<Tag(S_tbody, <<Tag(S_tr, <<Cell(S_th, <<"A">>), Cell(S_th, <<"B">>)>>),
                                Tag(S_tr, <<Cell(S_td, <<"1">>), Cell(S_td, <<"2">>)>>)>>)>>)

\* documents that are no chains: siblings, mixed content, tables, containers
OtherDocs ==
  {<<Tag(S_p, <<Text(<<"a">>)>>), Tag(S_p, <<Text(<<"b">>)>>)>>,
   <<Tag(S_div, <<Text(S_hi), Tag(S_p, <<Text(<<"a">>)>>)>>)>>,
   <<Tag(S_h1, <<Text(<<"T">>)>>), Tag(S_p, <<Text(S_hi)>>)>>,
   <<Tag(S_h1, <<Text(<<"T">>)>>), Tag(S_p, <<Text(S_body)>>)>>,
   <<Tag(S_html, <<Tag(S_head, <<Tag(S_style, <<Text(S_css)>>)>>),
                   Tag(S_body, <<Tag(S_p, <<Text(S_hi)>>), TableAB>>)>>)>>,
   <<Tag(S_div, <<TableAB>>), Tag(S_div, <<Tag(S_tbody, <<Text(S_hi)>>)>>)>>,
   <<Cell(S_p, S_hi),
     Tag(S_div, <<Tag(S_html, <<Tag(S_body, <<Cell(S_p, <<"a">>), Cell(S_span, <<"b">>)>>)>>)>>)>>,
   <<Tag(S_p, <<Text(S_hi), Tag(S_style, <<Text(S_css)>>)>>)>>,
   <<Tag(S_div, <<Text(S_hi), Tag(S_noscript, <<Text(S_css)>>), Tag(S_p, <<Text(<<"a">>)>>)>>)>>,
   <<Tag(S_table, <<Tag(S_tr, <<Tag(S_td, <<Text(<<"1">>), Tag(S_script, <<Text(S_css)>>)>>)>>)>>)>>,
   <<Text(S_hi)>>,
   <<>>}

\* sibling elements of one level, each with the entries it adds to that
\* level: a paragraph adds its text, a table its rows, a body (a transparent
\* container) the merged entries of its children
MaxSiblings == 3

TableOf(a, b) == Tag(S_table, <<Tag(S_tr, <<Cell(S_td, a), Cell(S_td, b)>>)>>)
RowsOf(a, b) == Arr(<<Arr(<<Str(a), Str(b)>>)>>)

SiblingItems ==
  {[node |-> Cell(S_p, <<"a">>), adds |-> <<[k |-> S_p, v |-> Str(<<"a">>)]>>],
   [node |-> Cell(S_p, <<"b">>), adds |-> <<[k |-> S_p, v |-> Str(<<"b">>)]>>],
   [node |-> TableOf(<<"1">>, <<"2">>), adds |-> <<[k |-> S_table, v |-> RowsOf(<<"1">>, <<"2">>)]>>],
   [node |-> TableOf(<<"3">>, <<"4">>), adds |-> <<[k |-> S_table, v |-> RowsOf(<<"3">>, <<"4">>)]>>],
   [node |-> TableOf(<<"5">>, <<"6">>), adds |-> <<[k |-> S_table, v |-> RowsOf(<<"5">>, <<"6">>)]>>],
   [node |-> Tag(S_body, <<Cell(S_p, <<"x">>), Cell(S_p, <<"y">>)>>),
    adds |-> <<[k |-> S_p, v |-> Arr(<<Str(<<"x">>), Str(<<"y">>)>>)]>>]}

ItemSeqs == UNION {[1..n -> SiblingItems] : n \in 1..MaxSiblings}

NodesOf(items) == [j \in 1..Len(items) |-> items[j].node]

RECURSIVE AddsOf(_)
AddsOf(items) == IF items = <<>> THEN <<>> ELSE Head(items).adds \o AddsOf(Tail(items))

SiblingDocs == {NodesOf(items) : items \in ItemSeqs}

Docs == ChainDocs \cup OtherDocs \cup SiblingDocs

StructIdle ==
  /\ msg = [uid |-> 0, struct |-> <<>>, parts |-> <<>>]
  /\ spc = "idle"
  /\ attachments = <<>>
  /\ names = <<>>
  /\ summary = [ret |-> JsFalse, calls |-> <<>>]

InitHtml ==
  /\ JsonIdle
  /\ StructIdle
  /\ RunIdle
  /\ doc \in Docs
  /\ hpc = "in"
  /\ json = JsNull

CallReduceDocument ==
  /\ hpc = "in"
  /\ json' = reduceDocument(doc)
  /\ hpc' = "out"
  /\ UNCHANGED <<jsonVars, doc, structVars, runVars>>

NextHtml == CallReduceDocument

SpecHtml == InitHtml /\ [][NextHtml]_vars

(***************************************************************************)
(* Properties of the hierarchical JSON structurer                          *)
(***************************************************************************)
RECURSIVE TextOf(_)
TextOf(children) ==
  IF children = <<>> THEN <<>>
  ELSE (IF Head(children).type = "text" THEN Head(children).data ELSE <<>>) \o TextOf(Tail(children))

\* the characters of s between its first and its last visible character
Visible(s) == {j \in 1..Len(s) : s[j] \notin Whitespace \cup {NBSP}}
TrimmedText(s) ==
  IF Visible(s) = {} THEN <<>>
  ELSE [j \in 1..(1 + (CHOOSE m \in Visible(s) : \A n \in Visible(s) : n <= m)
                    - (CHOOSE m \in Visible(s) : \A n \in Visible(s) : m <= n)) |->
          LET c == s[j - 1 + (CHOOSE m \in Visible(s) : \A n \in Visible(s) : m <= n)]
          IN IF c = NBSP THEN " " ELSE c]

ValuesAdded(adds, key) ==
  LET at == SelectSeq([j \in 1..Len(adds) |-> j], LAMBDA j : adds[j].k = key)
  IN [j \in 1..Len(at) |-> adds[at[j]].v]

\* the slot the values added under one key end in
ExpectedSlot(values) == IF Len(values) = 1 THEN values[1] ELSE Arr(values)

UniqueKeys(obj) ==
  \A a \in 1..Len(obj.kv), b \in 1..Len(obj.kv) : obj.kv[a].k = obj.kv[b].k => a = b

\* C11: at one level keys are unique, and a key added k >= 2 times holds the
\* array of exactly those k values in document order, whatever the values are
\* (texts, tables, merged results of a transparent container).
Orig_C11 ==
  hpc = "out" =>
    \A items \in ItemSeqs :
      doc = NodesOf(items) =>
        /\ UniqueKeys(json)
        /\ \A j \in 1..Len(json.kv) : \E a \in 1..Len(AddsOf(items)) : AddsOf(items)[a].k = json.kv[j].k
        /\ \A a \in 1..Len(AddsOf(items)) :
             LET key == AddsOf(items)[a].k
             IN /\ HasKey(json, key)
                /\ json.kv[KeyIndex(json, key)].v = ExpectedSlot(ValuesAdded(AddsOf(items), key))

\* C19: the paragraph that follows a heading is nested under a key equal to
\* the heading's text, its text in 'tag-data': <h1>T</h1><p>body</p> yields
\* {"T": {"tag-data": "body"}}
Orig_C19 ==
  (hpc = "out" /\ doc = <<Tag(S_h1, <<Text(<<"T">>)>>), Tag(S_p, <<Text(S_body)>>)>>) =>
    json = Obj(<<[k |-> <<"T">>, v |-> Obj(<<[k |-> S_tagData, v |-> Str(S_body)]>>)]>>)

(***************************************************************************)
(* Inputs of the columnar table extractor and of the sanitizer: HTML texts *)
(***************************************************************************)
MaxCols == 2
MaxRows == 2

\* a table as rows of cell texts: the first row in th or td cells, the others
\* in td cells
HeaderNames == {<<"A">>, <<>>, S_constructor}
DataRows == {<<<<"1">>>>, <<<<>>, <<"2">>>>, <<<<"1">>, <<"2">>, <<"3">>>>}

Grids ==
  [head : {S_th, S_td},
   headers : UNION {[1..n -> HeaderNames] : n \in 0..MaxCols},
   rows : UNION {[1..n -> DataRows] : n \in 0..MaxRows}]

Element(name, inner) == <<"<">> \o name \o <<">">> \o inner \o <<"<", "/">> \o name \o <<">">>

RECURSIVE CellsHtml(_, _)
CellsHtml(name, cells) ==
  IF cells = <<>> THEN <<>> ELSE Element(name, Head(cells)) \o CellsHtml(name, Tail(cells))

RECURSIVE RowsHtml(_)
RowsHtml(rows) ==
  IF rows = <<>> THEN <<>> ELSE Element(S_tr, CellsHtml(S_td, Head(rows))) \o RowsHtml(Tail(rows))

HtmlOf(grid) ==
  Element(S_table, Element(S_tr, CellsHtml(grid.head, grid.headers)) \o RowsHtml(grid.rows))

GridHtml == [grid \in Grids |-> HtmlOf(grid)]

\* the table of the README, laid out on several lines
S_readmeTable ==
  <<"<", "t", "a", "b", "l", "e", ">", "\n", " ", " ", "<", "t", "r", ">", "<", "t", "h", ">", "F", "i", "e", "l", "d", "<", "/", "t", "h", ">", "<", "t", "h", ">", "R", "e", "s", "p", "o", "n", "s", "e", "<", "/", "t", "h", ">", "<", "/", "t", "r", ">", "\n", " ", " ", "<", "t", "r", ">", "<", "t", "d", ">", "N", "a", "m", "e", "<", "/", "t", "d", ">", "<", "t", "d", ">", "J", "o", "h", "n", " ", "D", "o", "e", "<", "/", "t", "d", ">", "<", "/", "t", "r", ">", "\n", "<", "/", "t", "a", "b", "l", "e", ">">>

\* two tables with a paragraph between them, upper case, attributes, markup
\* and an entity inside a cell
S_twoTables ==
  <<"<", "t", "a", "b", "l", "e", ">", "<", "t", "r", ">", "<", "t", "h", ">", "A", "<", "/", "t", "h", ">", "<", "/", "t", "r", ">", "<", "t", "r", ">", "<", "t", "d", ">", "1", "<", "/", "t", "d", ">", "<", "/", "t", "r", ">", "<", "/", "t", "a", "b", "l", "e", ">", "<", "p", ">", "x", "<", "/", "p", ">", "<", "T", "A", "B", "L", "E", " ", "c", "l", "a", "s", "s", "=", "\"", "c", "\"", ">", "<", "T", "R", ">", "<", "T", "D", ">", "A", "<", "/", "T", "D", ">", "<", "T", "D", ">", "B", "<", "/", "T", "D", ">", "<", "/", "T", "R", ">", "<", "T", "R", ">", "<", "T", "D", ">", " ", "<", "b", ">", "2", "<", "/", "b", ">", "&", "a", "m", "p", ";", "<", "/", "T", "D", ">", "<", "/", "T", "R", ">", "<", "/", "T", "A", "B", "L", "E", ">">>

\* a table in a cell of a table
S_nestedTable ==
  Element(S_table, Element(S_tr, Element(S_td, <<"a">>)
                                 \o Element(S_td, Element(S_table, Element(S_tr, Element(S_td, <<"x">>))))))

OtherHtml == {S_readmeTable, S_twoTables, S_nestedTable, Element(S_p, S_hi), S_hi, <<>>}

HtmlTexts == {GridHtml[grid] : grid \in Grids} \cup OtherHtml

InitTables ==
  /\ JsonIdle
  /\ StructIdle
  /\ RunIdle
  /\ doc \in HtmlTexts
  /\ hpc = "in"
  /\ json = JsNull

\* parseHtmlTablesToColumnarJson(htmlContent)
CallParseHtmlTablesToColumnarJson ==
  /\ hpc = "in"
  /\ json' = parseHtmlTablesToColumnarJson(doc)
  /\ hpc' = "columns"
  /\ UNCHANGED <<jsonVars, doc, structVars, runVars>>

\* sanitizeHtml(htmlContent)
CallSanitizeHtml ==
  /\ hpc = "in"
  /\ json' = Str(sanitizeHtml(doc))
  /\ hpc' = "text"
  /\ UNCHANGED <<jsonVars, doc, structVars, runVars>>

NextTables == CallParseHtmlTablesToColumnarJson \/ CallSanitizeHtml

SpecTables == InitTables /\ [][NextTables]_vars

(***************************************************************************)
(* Properties of the columnar table extractor                              *)
(***************************************************************************)
\* the header names of a grid, each once, in the order of their first column
RECURSIVE DistinctNames(_)
DistinctNames(headers) ==
  IF headers = <<>> THEN <<>>
  ELSE LET front == DistinctNames(SubSeq(headers, 1, Len(headers) - 1))
           last == headers[Len(headers)]
       IN IF \E j \in 1..Len(front) : front[j] = last THEN front ELSE Append(front, last)

\* the cells of one row at the columns headed name, '' where the row is short
CellsUnder(headers, row, name) ==
  LET at == SelectSeq([c \in 1..Len(headers) |-> c], LAMBDA c : headers[c] = name)
  IN [j \in 1..Len(at) |-> Str(IF at[j] <= Len(row) THEN row[at[j]] ELSE <<>>)]

RECURSIVE ColumnUnder(_, _, _)
ColumnUnder(headers, rows, name) ==
  IF rows = <<>> THEN <<>>
  ELSE CellsUnder(headers, Head(rows), name) \o ColumnUnder(headers, Tail(rows), name)

ColumnsOf(grid) ==
  LET keys == DistinctNames(grid.headers)
  IN Obj([j \in 1..Len(keys) |-> [k |-> keys[j], v |-> Arr(ColumnUnder(grid.headers, grid.rows, keys[j]))]])

\* C12: the first row of a table gives the header names, and every later row,
\* in row order, gives each header's array the cell at that header's column,
\* or '' when the row has no cell there.
Orig_C12 ==
  hpc = "columns" =>
    \A grid \in Grids :
      (doc = GridHtml[grid] /\ Len(grid.rows) >= 1) => json = ColumnsOf(grid)

\* C13: for an input with exactly one table, all column arrays have the same
\* length, the number of data rows, whatever the header row is (repeated and
\* empty names included).
Orig_C13 ==
  hpc = "columns" =>
    \A grid \in Grids :
      doc = GridHtml[grid] =>
        /\ json.t = "obj"
        /\ \A j \in 1..Len(json.kv) : Len(json.kv[j].v.items) = Len(grid.rows)

(***************************************************************************)
(* Properties of the sanitizer's table formatter                           *)
(***************************************************************************)
\* the rows of a grid, the header row first, that have a cell
RowsWithCells(grid) == SelectSeq(<<grid.headers>> \o grid.rows, LAMBDA row : row # <<>>)

\* '| c1 | c2 | ... |'
BarLine(cells) == <<"|", " ">> \o join(cells, <<" ", "|", " ">>) \o <<" ", "|">>

\* the same line with a single space where a cell is empty
RECURSIVE BarWords(_)
BarWords(cells) ==
  IF cells = <<>> THEN <<>>
  ELSE (IF Head(cells) # <<>> THEN <<" ">> \o Head(cells) ELSE <<>>) \o <<" ", "|">>
       \o BarWords(Tail(cells))

ShrunkBarLine(cells) == <<"|">> \o BarWords(cells)

\* C15 as stated: every row with a cell is rendered as the line
\* '| c1 | c2 | ... |', one line per row in document order, and a row
\* without cells as nothing.
Orig_C15 ==
  hpc = "text" =>
    \A grid \in Grids :
      doc = GridHtml[grid] =>
        json = Str(join([r \in 1..Len(RowsWithCells(grid)) |-> BarLine(RowsWithCells(grid)[r])],
                        <<"\n">>))

\* C15, amended: every row with a cell that is not inside a cell of another
\* row is rendered as one line, '|' followed by ' c |' for each cell with text
\* and by ' |' for each empty cell, one line per row in document order; a row
\* without cells gives nothing; a table inside a cell gives its text to that
\* cell and no line of its own.
Thm_C15 ==
  hpc = "text" =>
    /\ \A grid \in Grids :
         doc = GridHtml[grid] =>
           json = Str(join([r \in 1..Len(RowsWithCells(grid)) |->
                              ShrunkBarLine(RowsWithCells(grid)[r])], <<"\n">>))
    /\ doc = S_nestedTable => json = Str(<<"|", " ", "a", " ", "|", " ", "x", " ", "|">>)
    /\ doc = S_readmeTable =>
         json = Str(BarLine(<<<<"F", "i", "e", "l", "d">>, <<"R", "e", "s", "p", "o", "n", "s", "e">>>>)
                    \o <<"\n">>
                    \o BarLine(<<<<"N", "a", "m", "e">>, <<"J", "o", "h", "n", " ", "D", "o", "e">>>>))

\* a header row A, A and the row 1, 2, 3 came out as '| A | A |' and '| 1 | 2 | 3 |'
Wit_C15 ==
  /\ hpc = "text"
  /\ doc = GridHtml[[head |-> S_th, headers |-> <<<<"A">>, <<"A">>>>,
                     rows |-> <<<<<<"1">>, <<"2">>, <<"3">>>>>>]]
  /\ json = Str(<<"|", " ", "A", " ", "|", " ", "A", " ", "|", "\n",
                  "|", " ", "1", " ", "|", " ", "2", " ", "|", " ", "3", " ", "|">>)

(***************************************************************************)
(* One run of extractEmail() with the option "all": the mailbox, what the  *)
(* connection and the parser answer, the statements of the message loop.   *)
(* The loop of -n (one message) and the loop of the list have the same     *)
(* statements up to the output.                                            *)
(***************************************************************************)
MaxMsgs == 2

S_x == <<"x">>
S_blank == <<" ">>
S_pHi == <<"<", "p", ">", "h", "i", "<", "/", "p", ">">>
S_pBlank == <<"<", "p", ">", " ", "<", "/", "p", ">">>
S_tableAB ==
  <<"<", "t", "a", "b", "l", "e", ">", "<", "t", "r", ">", "<", "t", "h", ">", "A", "<", "/", "t", "h", ">",
    "<", "/", "t", "r", ">", "<", "t", "r", ">", "<", "t", "d", ">", "1", "<", "/", "t", "d", ">",
    "<", "/", "t", "r", ">", "<", "/", "t", "a", "b", "l", "e", ">">>
S_lessThan == <<"1", " ", "<", " ", "2", " ", ">", " ", "0">>
S_bold == <<"a", " ", "<", "b", ">", "x", "<", "/", "b", ">">>

\* n times the character c
Rep(c, n) == [j \in 1..n |-> c]

LongText == Rep("x", MAX_BODY_PREVIEW_LENGTH + 1)
LongHtml == <<"<", "d", "i", "v", ">">> \o LongText \o <<"<", "/", "d", "i", "v", ">">>

\* a table whose header cell is the name of a property every object inherits
CtorTable ==
  Element(S_table, Element(S_tr, Element(S_th, S_constructor)) \o Element(S_tr, Element(S_td, <<"1">>)))

HtmlData == {<<>>, S_blank, S_pHi, S_pBlank, S_tableAB, LongHtml, CtorTable}
PlainData == {<<>>, S_blank, S_hi, LongText, S_lessThan, S_bold}

\* connection.getPartData: throws, or returns the part's content
PartData(contents) ==
  {[throws |-> TRUE, data |-> <<>>]} \cup {[throws |-> FALSE, data |-> d] : d \in contents}

\* connection.search([['UID', uid]], {bodies: ['TEXT']}) and simpleParser
ParsedBodies ==
  {[text |-> <<>>, html |-> <<>>], [text |-> S_hi, html |-> <<>>],
   [text |-> <<>>, html |-> S_pHi], [text |-> S_hi, html |-> S_pHi],
   [text |-> <<>>, html |-> CtorTable]}

TextAnswer == <<[parts |-> <<[which |-> "TEXT", body |-> S_rawMime]>>]>>

RefetchOutcomes ==
  {[throws |-> TRUE, refetch |-> <<>>, parseThrows |-> FALSE, parsed |-> [text |-> <<>>, html |-> <<>>]],
   [throws |-> FALSE, refetch |-> <<>>, parseThrows |-> FALSE, parsed |-> [text |-> <<>>, html |-> <<>>]],
   [throws |-> FALSE, refetch |-> <<[parts |-> <<HeaderPart>>]>>, parseThrows |-> FALSE,
    parsed |-> [text |-> <<>>, html |-> <<>>]],
   [throws |-> FALSE, refetch |-> TextAnswer, parseThrows |-> TRUE,
    parsed |-> [text |-> <<>>, html |-> <<>>]]}
  \cup {[throws |-> FALSE, refetch |-> TextAnswer, parseThrows |-> FALSE, parsed |-> b] :
          b \in ParsedBodies}

RunStructs ==
  {<<TextPlainLeaf(1)>>,
   <<TextHtmlLeaf(1)>>,
   <<Multipart(1, <<TextPlainLeaf(2), TextHtmlLeaf(3)>>)>>,
   <<Multipart(1, <<PdfAttachmentLeaf(2)>>)>>}

\* the re-fetch of the whole message throws, or the parser finds a.txt in it
RunAttachmentIO ==
  {io \in AttachmentIO : io.refetchThrows \/ (io.refetch = RawAnswer /\ io.parsed = <<S_a_txt>>)}

RunMessages == {[uid |-> 7, struct |-> st, parts |-> <<HeaderPart>>] : st \in RunStructs}

\* every mailbox of up to two messages; a longer one holds copies of one message
Mailboxes ==
  UNION {{box \in [1..n -> RunMessages] : n > 2 => \A j \in 1..n : box[j] = box[1]} :
           n \in 0..MaxMsgs}

(***************************************************************************)
(* The command line's count and option word, handleOption and              *)
(* outputToTerminal, the filters of -a and downloadAttachments.            *)
(***************************************************************************)
\* writeOutputLine called n times: the console when the writer is off; else
\* the first call empties or creates the file, every call appends a line
writeOutputLines(io, n) ==
  IF ~io.writer.enabled \/ n = 0 THEN io
  ELSE [writer |-> [io.writer EXCEPT !.initialized = TRUE],
        file |-> IF io.writer.initialized
                 THEN [io.file EXCEPT !.lines = @ + n]
                 ELSE [exists |-> TRUE, old |-> FALSE, lines |-> n]]

\* the lines outputToTerminal writes without --json: a blank line and the
\* header when h == 0, and the field
RECURSIVE textLines(_, _)
textLines(outputs, j) ==
  IF j > Len(outputs) THEN 0
  ELSE (IF outputs[j].h = 0 THEN 3 ELSE 1) + textLines(outputs, j + 1)

\* connection.end()
end(c) == [c EXCEPT !.ended = @ + 1]

Digits == <<"0", "1", "2", "3", "4", "5", "6", "7", "8", "9">>

\* parseInt(arg, 10) of an argument that matches /^\d+$/
RECURSIVE parseInt(_)
parseInt(arg) ==
  IF arg = <<>> THEN 0
  ELSE 10 * parseInt(SubSeq(arg, 1, Len(arg) - 1))
       + (CHOOSE d \in 0..9 : Digits[d + 1] = arg[Len(arg)])

\* count = numericArgs.length > 0 ? parseInt(numericArgs[0], 10) : getDefaultCount()
countOf(numericArgs) ==
  IF Len(numericArgs) > 0 THEN parseInt(numericArgs[1]) ELSE getDefaultCount

optSet == <<"from", "to", "date", "subject", "attachment", "body">>
taskSets == {"stop", "downloadAttachments"}

\* handleTaskSets(extract), called with optionCall = 0
optionCall == IF extract \in taskSets THEN 2 ELSE 1

\* one header of the output and the field names written under it; uid is the
\* message the header was written for
Email(number, uid, fields) == [kind |-> "email", number |-> number, uid |-> uid, fields |-> fields]

\* console.log(`\nFound matching email #${i + 1}:`) of the -a loop
Found(number, uid) == [kind |-> "found", number |-> number, uid |-> uid, fields |-> <<>>]

\* numbers the headers in the order of the loop, oldest first
outputToTerminalCountsUp(out, total, uid, opt, h) ==
  IF h = 0
  THEN [terminal |-> Append(out.terminal, Email(out.emailCount + 1, uid, <<opt>>)),
        emailCount |-> out.emailCount + 1]
  ELSE [out EXCEPT !.terminal[Len(out.terminal)].fields = Append(@, opt)]

\* outputToTerminal(opt, val, h): h == 0 starts the email numbered
\* totalEmailsToDisplay - emailCount; the field goes under the current email
outputToTerminal(out, total, uid, opt, h) ==
  IF h = 0
  THEN [terminal |-> Append(out.terminal, Email(total - out.emailCount, uid, <<opt>>)),
        emailCount |-> out.emailCount + 1]
  ELSE [out EXCEPT !.terminal[Len(out.terminal)].fields = Append(@, opt)]

\* loopOptSet(1): the calls for the members of optSet equal to opt, and allArr
loopOptSetOne(opt) == SelectSeq(optSet, LAMBDA o : o = opt)
allArr(opt) == SelectSeq(optSet, LAMBDA o : o # opt)

\* runs loopOptSet(2) whatever loopOptSet(1) has output
handleOptionAlwaysAll(opt) ==
  [j \in 1..Len(loopOptSetOne(opt)) |-> [opt |-> opt, h |-> 0]]
  \o [j \in 1..Len(optSet) |-> [opt |-> optSet[j], h |-> j - 1]]

\* handleOption(opt, ...): the calls of outputToTerminal it makes, in order
handleOption(opt) ==
  [j \in 1..Len(loopOptSetOne(opt)) |-> [opt |-> opt, h |-> 0]]
  \o (IF Len(allArr(opt)) = Len(optSet)
      THEN [j \in 1..Len(optSet) |-> [opt |-> optSet[j], h |-> j - 1]]
      ELSE <<>>)

RECURSIVE outputAll(_, _, _, _, _)
outputAll(out, total, uid, outputs, j) ==
  IF j > Len(outputs) THEN out
  ELSE outputAll(outputToTerminal(out, total, uid, outputs[j].opt, outputs[j].h),
                 total, uid, outputs, j + 1)

\* String.prototype.includes
includes(s, pat) == indexOf(s, 1, pat) <= Len(s) - Len(pat) + 1

\* accepts every message whatever the filters are
matchesFiltersAlways(headersPart, subject, hasAttachment) == TRUE

\* matchesFilters(headersPart, subject, hasAttachment)
matchesFilters(headersPart, subject, hasAttachment) ==
  /\ (fromFilter # JsNull /\ fromFilter # <<>>) =>
       includes(toLowerCase(headersPart.from), toLowerCase(fromFilter))
  /\ (subjectFilter # JsNull /\ subjectFilter # <<>>) =>
       includes(toLowerCase(subject), toLowerCase(subjectFilter))
  /\ attachmentFilter => ~Falsy(hasAttachment)



InitRun ==
  /\ JsonIdle
  /\ StructIdle
  /\ HtmlIdle
  /\ fullBody \in BOOLEAN
  /\ htmlMode \in BOOLEAN
  /\ jsonMode \in {"null", "default", "html", "table"}
  /\ emailNumber \in {JsNull, Num(1), Num(MaxMsgs + 1)}
  /\ messages \in Mailboxes
  /\ lastMessages = <<>>
  /\ pc = "search"
  /\ i = 0
  /\ body = Str(<<>>)
  /\ calls = <<>>
  /\ currentAttachmentSummary = JsFalse
  /\ emailCount = 0
  /\ outputBody = JsNull
  /\ DefaultOptions
  /\ NothingOut
  /\ Console
  /\ Connected

\* one call on the connection for the body: the operation, the part asked for,
\* the body before the call, whether the call threw, the content it returned,
\* the body after the stage of the call
Call(op, part, before, threw, data, after) ==
  [op |-> op, part |-> part, before |-> before, threw |-> threw, data |-> data, after |-> after]

\* connection.search(['ALL']), then the choice of the messages to go through:
\* the one of -n, every message for the filters of -a, else the last count
Search ==
  /\ pc = "search"
  /\ \E searchThrows \in BOOLEAN :
       IF searchThrows
       THEN /\ pc' = "failed"
            /\ UNCHANGED <<lastMessages, i, ioVars>>
       ELSE IF emailNumber # JsNull
       THEN IF emailNumber.n < 1 \/ emailNumber.n > Len(messages)
            THEN /\ pc' = "done"
                 /\ conn' = end(conn)
                 /\ UNCHANGED <<lastMessages, i, outputWriter, outputFile>>
            ELSE /\ lastMessages' = <<messages[Len(messages) - emailNumber.n + 1]>>
                 /\ i' = 1
                 /\ pc' = "html"
                 /\ UNCHANGED ioVars
       ELSE IF attachmentDownload
       THEN /\ i' = IF messages = <<>> THEN 0 ELSE 1
            /\ pc' = IF messages = <<>> THEN "done" ELSE "download"
            /\ conn' = IF messages = <<>> THEN end(conn) ELSE conn
            /\ UNCHANGED <<lastMessages, outputWriter, outputFile>>
       ELSE /\ lastMessages' = sliceLast(messages, count)
            /\ i' = IF messages = <<>> THEN 0 ELSE 1
            /\ IF messages = <<>>
               THEN LET io == writeOutputLines([writer |-> outputWriter, file |-> outputFile],
                                               IF jsonMode # "null" THEN 1 ELSE 0)
                    IN /\ pc' = "done"
                       /\ outputWriter' = io.writer
                       /\ outputFile' = io.file
                       /\ conn' = end(conn)
               ELSE /\ pc' = "html"
                    /\ UNCHANGED ioVars
  /\ UNCHANGED <<jsonVars, flagVars, outVars, messages, body, calls, currentAttachmentSummary, emailCount,
                 outputBody, structVars, htmlVars>>

\* one turn of the loop of -a without -n: hasAttachment, matchesFilters, the
\* download, the break after the first match of attachment=true
DownloadStep ==
  /\ pc = "download"
  /\ LET m == messages[i]
         headersPart == m.parts[1].body
     IN \E io \in RunAttachmentIO,
           succeed \in SUBSET (1..Len(findAttachmentsInStruct(m.struct, <<>>))) :
          LET hasAttachment == getAttachmentSummaryFromMessage(m, TRUE, io).ret
              matches == matchesFilters(headersPart, headersPart.subject, hasAttachment)
          IN /\ terminal' = IF matches THEN Append(terminal, Found(i, m.uid)) ELSE terminal
             /\ downloaded' = IF matches THEN downloaded \o downloadAttachments(m, downloadDir, succeed)
                              ELSE downloaded
             /\ IF i < Len(messages) /\ ~(matches /\ attachmentFilter)
                THEN /\ i' = i + 1
                     /\ UNCHANGED <<pc, conn>>
                ELSE /\ pc' = "done"
                     /\ conn' = end(conn)
                     /\ UNCHANGED i
  /\ UNCHANGED <<jsonVars, flagVars, messages, lastMessages, body, calls, currentAttachmentSummary,
                 emailCount, outputBody, outputWriter, outputFile, structVars, htmlVars>>

\* what the HTML stage leaves in body, given what getPartData answers
\* (an exception of processBody is caught like one of getPartData)
htmlStageBody(out) ==
  IF ~out.throws /\ out.data # <<>> /\ trimJs(out.data) # <<>>
       /\ processBody(Str(out.data), TRUE) # TypeError
  THEN processBody(Str(out.data), TRUE)
  ELSE Str(<<>>)

\* an exception of getPartData leaves the loop
HtmlStageThrowEscapes ==
  /\ pc = "html"
  /\ LET htmlPart == findHtmlPart(lastMessages[i].struct)
     IN IF htmlPart # JsNull
        THEN \E out \in PartData(HtmlData) :
               LET after == htmlStageBody(out)
               IN /\ body' = after
                  /\ calls' = <<Call("getPartData", htmlPart.subtype, Str(<<>>), out.throws,
                                     out.data, after)>>
                  /\ pc' = IF out.throws THEN "failed" ELSE "plain"
        ELSE /\ body' = Str(<<>>)
             /\ calls' = <<>>
             /\ pc' = "plain"
  /\ outputBody' = JsNull
  /\ UNCHANGED <<jsonVars, flagVars, outVars, ioVars, messages, lastMessages, i, currentAttachmentSummary, emailCount,
                 structVars, htmlVars>>

\* let body = ''; if (htmlPart) { try { getPartData ... } catch { } }
HtmlStage ==
  /\ pc = "html"
  /\ LET htmlPart == findHtmlPart(lastMessages[i].struct)
     IN IF htmlPart # JsNull
        THEN \E out \in PartData(HtmlData) :
               LET after == htmlStageBody(out)
               IN /\ body' = after
                  /\ calls' = <<Call("getPartData", htmlPart.subtype, Str(<<>>), out.throws,
                                     out.data, after)>>
        ELSE /\ body' = Str(<<>>)
             /\ calls' = <<>>
  /\ outputBody' = JsNull
  /\ pc' = "plain"
  /\ UNCHANGED <<jsonVars, flagVars, outVars, ioVars, messages, lastMessages, i, currentAttachmentSummary, emailCount,
                 structVars, htmlVars>>

\* fetches the plain part whatever the HTML stage left
PlainStageAlways ==
  /\ pc = "plain"
  /\ LET textPart == findTextPart(lastMessages[i].struct)
     IN IF textPart # JsNull
        THEN \E out \in PartData(PlainData) :
               LET after == IF out.throws THEN body ELSE Str(out.data)
               IN /\ body' = after
                  /\ calls' = Append(calls, Call("getPartData", textPart.subtype, body,
                                                 out.throws, out.data, after))
        ELSE UNCHANGED <<body, calls>>
  /\ pc' = "refetch"
  /\ UNCHANGED <<jsonVars, flagVars, outVars, ioVars, messages, lastMessages, i, currentAttachmentSummary, emailCount,
                 outputBody, structVars, htmlVars>>

\* if (!hasBodyContent(body) && textPart) { try { getPartData ... } catch { } }
PlainStage ==
  /\ pc = "plain"
  /\ LET textPart == findTextPart(lastMessages[i].struct)
     IN IF ~hasBodyContent(body) /\ textPart # JsNull
        THEN \E out \in PartData(PlainData) :
               LET after == IF out.throws THEN body ELSE Str(out.data)
               IN /\ body' = after
                  /\ calls' = Append(calls, Call("getPartData", textPart.subtype, body,
                                                 out.throws, out.data, after))
        ELSE UNCHANGED <<body, calls>>
  /\ pc' = "refetch"
  /\ UNCHANGED <<jsonVars, flagVars, outVars, ioVars, messages, lastMessages, i, currentAttachmentSummary, emailCount,
                 outputBody, structVars, htmlVars>>

\* what the re-fetch stage leaves in body, given what search and simpleParser answer
refetchStageBody(before, r) ==
  IF r.throws THEN before
  ELSE IF Len(r.refetch) > 0 /\ \E k \in 1..Len(r.refetch[1].parts) : r.refetch[1].parts[k].which = "TEXT"
  THEN IF r.parseThrows THEN before
       ELSE IF r.parsed.text # <<>> THEN Str(r.parsed.text)
       ELSE Str(r.parsed.html)
  ELSE before

\* if (!hasBodyContent(body)) { try { search UID, simpleParser ... } catch { } }
RefetchStage ==
  /\ pc = "refetch"
  /\ IF ~hasBodyContent(body)
     THEN \E r \in RefetchOutcomes :
            LET after == refetchStageBody(body, r)
            IN /\ body' = after
               /\ calls' = Append(calls, Call("search", S_text, body, r.throws \/ r.parseThrows,
                                              <<>>, after))
     ELSE UNCHANGED <<body, calls>>
  /\ pc' = "project"
  /\ UNCHANGED <<jsonVars, flagVars, outVars, ioVars, messages, lastMessages, i, currentAttachmentSummary, emailCount,
                 outputBody, structVars, htmlVars>>

\* if (needsHtmlStructure && typeof body === 'string' && body.trim()) ...
\* (outside every try of the loop: an exception of processBody ends the run)
ProjectStage ==
  /\ pc = "project"
  /\ LET projected == IF jsonMode \in {"html", "table"} /\ body.t = "str" /\ trimJs(body.s) # <<>>
                      THEN processBody(body, looksLikeHtml(body.s))
                      ELSE body
     IN IF projected = TypeError
        THEN body' = body /\ pc' = "failed"
        ELSE body' = projected /\ pc' = "output"
  /\ UNCHANGED <<jsonVars, flagVars, outVars, ioVars, messages, lastMessages, i, calls, currentAttachmentSummary,
                 emailCount, outputBody, structVars, htmlVars>>

\* currentAttachmentSummary = await getAttachmentSummaryFromMessage(msg, connection);
\* then -n: the header, the six fields (Body is body) and the download of -a;
\* list: handleOption (setVal, outputToTerminal) unless the word is a task.
\* Without --json the lines go to writeOutputLine as they come; after the last
\* message the JSON document is written and the connection ended.
Output ==
  /\ pc = "output"
  /\ currentAttachmentSummary' \in
       {getAttachmentSummaryFromMessage(lastMessages[i], TRUE, io).ret : io \in RunAttachmentIO}
  /\ IF emailNumber # JsNull
     THEN /\ outputBody' = body
          /\ terminal' = Append(terminal, Email(emailNumber.n, lastMessages[i].uid, optSet))
          /\ IF attachmentDownload
             THEN \E succeed \in SUBSET (1..Len(findAttachmentsInStruct(lastMessages[i].struct, <<>>))) :
                    downloaded' = downloaded \o downloadAttachments(lastMessages[i], downloadDir, succeed)
             ELSE UNCHANGED downloaded
          /\ UNCHANGED emailCount
     ELSE /\ outputBody' = truncateBody(body)
          /\ IF optionCall = 1
             THEN LET out == outputAll([terminal |-> terminal, emailCount |-> emailCount],
                                       Len(lastMessages), lastMessages[i].uid,
                                       handleOption(extract), 1)
                  IN /\ terminal' = out.terminal
                     /\ emailCount' = out.emailCount
             ELSE UNCHANGED <<terminal, emailCount>>
          /\ UNCHANGED downloaded
  /\ LET last == i = Len(lastMessages)
         written == (IF jsonMode # "null" THEN 0
                     ELSE IF emailNumber # JsNull THEN 2 + Len(optSet)
                     ELSE IF optionCall = 1 THEN textLines(handleOption(extract), 1)
                     ELSE 0)
                    + (IF last /\ jsonMode # "null" THEN 1 ELSE 0)
         io == writeOutputLines([writer |-> outputWriter, file |-> outputFile], written)
     IN /\ outputWriter' = io.writer
        /\ outputFile' = io.file
        /\ IF last
           THEN /\ pc' = "done"
                /\ conn' = end(conn)
                /\ UNCHANGED i
           ELSE /\ i' = i + 1
                /\ pc' = "html"
                /\ UNCHANGED conn
  /\ UNCHANGED <<jsonVars, flagVars, messages, lastMessages, body, calls, structVars, htmlVars>>

Next ==
  \/ Search
  \/ HtmlStage
  \/ PlainStage
  \/ RefetchStage
  \/ ProjectStage
  \/ Output

Spec == InitRun /\ [][Next]_vars

(***************************************************************************)
(* Runs with a count, an option word, -n, -a and filters, over mailboxes   *)
(* whose messages differ by uid, sender, subject and attachment.           *)
(***************************************************************************)
MaxList == 3

S_sender == <<"a", "@", "x">>
S_other == <<"b", "@", "y">>
S_Report == <<"R", "e", "p", "o", "r", "t">>
S_Hello == <<"H", "e", "l", "l", "o">>
S_fromArg == <<"A", "@", "X">>
S_subjectArg == <<"r", "e", "p">>

Headers(from, subject) ==
  [which |-> "HEADER.FIELDS (FROM TO SUBJECT DATE)", body |-> [from |-> from, subject |-> subject]]

\* a report with a PDF attached, and a plain note
ListMessages(uid) ==
  {[uid |-> uid, struct |-> <<Multipart(1, <<PdfAttachmentLeaf(2)>>)>>,
    parts |-> <<Headers(S_sender, S_Report)>>],
   [uid |-> uid, struct |-> <<TextPlainLeaf(1)>>, parts |-> <<Headers(S_other, S_Hello)>>]}

ListMailboxes ==
  UNION {{box \in [1..n -> UNION {ListMessages(uid) : uid \in 1..MaxList}] :
            \A j \in 1..n : box[j].uid = j} : n \in 0..MaxList}

NumericArgs == {<<>>, <<<<"0">>>>, <<<<"1">>>>, <<<<"0", "2">>, <<"1">>>>}
OptionWords == {"all", "subject", "body", "unknown-option", "stop"}

InitList ==
  /\ JsonIdle
  /\ StructIdle
  /\ HtmlIdle
  /\ fullBody = FALSE
  /\ htmlMode = FALSE
  /\ jsonMode \in {"null", "default"}
  /\ \/ /\ emailNumber = JsNull
        /\ \E numericArgs \in NumericArgs : count = countOf(numericArgs)
        /\ extract \in OptionWords
        /\ attachmentDownload = FALSE
        /\ fromFilter = JsNull
        /\ subjectFilter = JsNull
        /\ attachmentFilter = FALSE
     \/ /\ emailNumber \in {Num(0), Num(1), Num(2), Num(MaxList + 1)}
        /\ count = getDefaultCount
        /\ extract \in {"all", "subject"}
        /\ attachmentDownload \in BOOLEAN
        /\ fromFilter = JsNull
        /\ subjectFilter = JsNull
        /\ attachmentFilter = FALSE
     \/ /\ emailNumber = JsNull
        /\ count = getDefaultCount
        /\ extract = "all"
        /\ attachmentDownload = TRUE
        /\ fromFilter \in {JsNull, S_fromArg}
        /\ subjectFilter \in {JsNull, S_subjectArg}
        /\ attachmentFilter \in BOOLEAN
  /\ messages \in ListMailboxes
  /\ lastMessages = <<>>
  /\ pc = "search"
  /\ i = 0
  /\ body = Str(<<>>)
  /\ calls = <<>>
  /\ currentAttachmentSummary = JsFalse
  /\ emailCount = 0
  /\ outputBody = JsNull
  /\ NothingOut
  /\ Console
  /\ Connected

NextList ==
  \/ Search
  \/ DownloadStep
  \/ HtmlStage
  \/ PlainStage
  \/ RefetchStage
  \/ ProjectStage
  \/ Output

SpecList == InitList /\ [][NextList]_vars

(***************************************************************************)
(* Runs from the start of extractEmail(): -o, the output writer, connect   *)
(* and openBox, then the run as above.  Not a task run (no --task).        *)
(***************************************************************************)
\* enables the writer whether the file exists or not
prepareOutputWriterOverwrites(option, file) ==
  IF option = JsNull THEN [throws |-> FALSE, enabled |-> FALSE]
  ELSE [throws |-> FALSE, enabled |-> TRUE]

\* prepareOutputWriter(outputOption, false), file being the file at the path of
\* a 'file' option or the default response file of a 'directory' option
prepareOutputWriter(option, file) ==
  IF option = JsNull THEN [throws |-> FALSE, enabled |-> FALSE]
  ELSE IF option.type = "file" /\ file.exists THEN [throws |-> TRUE, enabled |-> FALSE]
  ELSE [throws |-> FALSE, enabled |-> TRUE]

OutputOptions == {JsNull, [type |-> "file"], [type |-> "directory"]}

InitOut ==
  /\ JsonIdle
  /\ StructIdle
  /\ HtmlIdle
  /\ fullBody = FALSE
  /\ htmlMode = FALSE
  /\ jsonMode \in {"null", "default", "table"}
  /\ \/ /\ emailNumber = JsNull
        /\ extract \in {"all", "subject", "stop"}
        /\ attachmentDownload = FALSE
        /\ attachmentFilter = FALSE
     \/ /\ emailNumber \in {Num(1), Num(MaxList + 1)}
        /\ extract = "all"
        /\ attachmentDownload \in BOOLEAN
        /\ attachmentFilter = FALSE
     \/ /\ emailNumber = JsNull
        /\ extract = "all"
        /\ attachmentDownload = TRUE
        /\ attachmentFilter \in BOOLEAN
  /\ count = getDefaultCount
  /\ fromFilter = JsNull
  /\ subjectFilter = JsNull
  /\ outputOption \in OutputOptions
  /\ outputWriter = [enabled |-> FALSE, initialized |-> FALSE]
  /\ outputFile \in IF outputOption = JsNull THEN {Absent} ELSE {Absent, Existing}
  /\ NotConnected
  /\ messages \in ListMailboxes
  /\ lastMessages = <<>>
  /\ pc = "prepare"
  /\ i = 0
  /\ body = Str(<<>>)
  /\ calls = <<>>
  /\ currentAttachmentSummary = JsFalse
  /\ emailCount = 0
  /\ outputBody = JsNull
  /\ NothingOut

\* resolveOutputOption, prepareOutputWriter
Prepare ==
  /\ pc = "prepare"
  /\ LET prepared == prepareOutputWriter(outputOption, outputFile)
     IN IF prepared.throws
        THEN /\ pc' = "failed"
             /\ UNCHANGED outputWriter
        ELSE /\ pc' = "connect"
             /\ outputWriter' = [enabled |-> prepared.enabled, initialized |-> FALSE]
  /\ UNCHANGED <<jsonVars, flagVars, outVars, outputFile, conn, messages, lastMessages, i, body, calls,
                 currentAttachmentSummary, emailCount, outputBody, structVars, htmlVars>>

\* imapModule.connect(configEmail), connection.openBox('INBOX')
Connect ==
  /\ pc = "connect"
  /\ \E connectThrows \in BOOLEAN, openBoxThrows \in BOOLEAN :
       /\ conn' = [conn EXCEPT !.opened = ~connectThrows]
       /\ pc' = IF connectThrows \/ openBoxThrows THEN "failed" ELSE "search"
  /\ UNCHANGED <<jsonVars, flagVars, outVars, outputWriter, outputFile, messages, lastMessages, i, body,
                 calls, currentAttachmentSummary, emailCount, outputBody, structVars, htmlVars>>

NextOut ==
  \/ Prepare
  \/ Connect
  \/ Search
  \/ DownloadStep
  \/ HtmlStage
  \/ PlainStage
  \/ RefetchStage
  \/ ProjectStage
  \/ Output

SpecOut == InitOut /\ [][NextOut]_vars

(***************************************************************************)
(* Properties of the headers, the fields and the downloads                 *)
(***************************************************************************)
\* the entries of terminal that are "Email #k" headers or JSON keys
EmailEntries == {j \in 1..Len(terminal) : terminal[j].kind = "email"}

\* the k-th most recent message of the mailbox, which is the one -n k selects
Recent(k) == messages[Len(messages) - k + 1]

ListMode == emailNumber = JsNull /\ ~attachmentDownload

\* C17: with a count c given as an all-digit argument, the list outputs at
\* most c emails, and only messages among the last c of the mailbox
Orig_C17 ==
  ListMode =>
    /\ Cardinality(EmailEntries) <= count
    /\ \A j \in EmailEntries :
         terminal[j].uid \in {Recent(k).uid : k \in 1..(IF count < Len(messages) THEN count ELSE Len(messages))}

(***************************************************************************)
(* Properties of the run                                                   *)
(***************************************************************************)
\* a body without content: nothing but white space, or an object without entries
Blank(b) ==
  \/ b.t = "str" /\ \A j \in 1..Len(b.s) : b.s[j] \in Whitespace \cup {NBSP}
  \/ b.t = "obj" /\ b.kv = <<>>

IsCall(c, op, part) == c.op = op /\ c.part = part

\* the message that calls and outputBody are about
Current == IF pc = "html" THEN lastMessages[i - 1] ELSE lastMessages[i]

\* the stage of the message in work is over
PlainStageOver == pc \in {"refetch", "project", "output", "html", "done"}
RefetchStageOver == pc \in {"project", "output", "html", "done"}

\* the Body of the message in work has been written
Written == outputBody # JsNull

\* no -f, no --html, no -n
DefaultProjection == ~fullBody /\ ~htmlMode /\ emailNumber = JsNull

\* C1: the sources are tried in the order HTML leaf, plain leaf, UID re-fetch
\* of TEXT; each call finds the body as the stage before left it; getPartData
\* for the plain leaf is called only when the HTML stage left the body without
\* content, the UID search only when all earlier stages left it without content.
Thm_C1 ==
  /\ \A k \in 1..Len(calls) :
       /\ calls[k].before = IF k = 1 THEN Str(<<>>) ELSE calls[k - 1].after
       /\ IsCall(calls[k], "getPartData", S_html) => k = 1
       /\ IsCall(calls[k], "getPartData", S_plain) =>
            /\ Blank(calls[k].before)
            /\ k > 1 => IsCall(calls[k - 1], "getPartData", S_html)
       /\ IsCall(calls[k], "search", S_text) =>
            /\ Blank(calls[k].before)
            /\ k = Len(calls)
            /\ k > 1 => calls[k - 1].op = "getPartData"
  /\ Len(calls) <= 3
  /\ (Len(calls) > 0 /\ pc # "failed") => body = calls[Len(calls)].after \/ pc \in {"output", "html", "done"}

\* all three sources were tried in turn, and only the last one had content
Wit_C1 ==
  /\ pc = "project"
  /\ Len(calls) = 3
  /\ IsCall(calls[1], "getPartData", S_html) /\ calls[1].data = S_pBlank
  /\ IsCall(calls[2], "getPartData", S_plain) /\ calls[2].data = S_blank
  /\ IsCall(calls[3], "search", S_text)
  /\ body = Str(S_hi)

\* the HTML leaf of the message in work was fetched, and the fetch returned
HtmlFetched ==
  /\ findHtmlPart(Current.struct) # JsNull
  /\ Len(calls) > 0
  /\ IsCall(calls[1], "getPartData", S_html)
  /\ ~calls[1].threw

\* C2 as stated: whenever an HTML leaf exists and --html is given, the Body
\* written is the content fetched for that leaf, unchanged.
Orig_C2 ==
  (Written /\ htmlMode /\ HtmlFetched) => outputBody = Str(calls[1].data)

\* C2, amended: with --html and neither --json:html nor --json:table, when the
\* content fetched for the HTML leaf is not blank, the Body written is that
\* content unchanged (not sanitized, not structured, not truncated) and no
\* other source is asked.
Thm_C2 ==
  (Written /\ htmlMode /\ jsonMode \notin {"html", "table"} /\ HtmlFetched
     /\ ~Blank(Str(calls[1].data))) =>
    /\ outputBody = Str(calls[1].data)
    /\ Len(calls) = 1

\* with --html alone, markup of more than 200 characters was written as fetched
Wit_C2 ==
  /\ Written
  /\ htmlMode /\ ~fullBody /\ emailNumber = JsNull /\ jsonMode = "null"
  /\ HtmlFetched
  /\ calls[1].data = LongHtml
  /\ outputBody = Str(LongHtml)

\* the plain leaf of a message without HTML leaf was fetched, and the fetch returned
PlainFetched ==
  /\ findHtmlPart(Current.struct) = JsNull
  /\ findTextPart(Current.struct) # JsNull
  /\ Len(calls) > 0
  /\ IsCall(calls[1], "getPartData", S_plain)
  /\ ~calls[1].threw

\* s holds a '<', a letter right after it, and a '>' further on
ContainsTag(s) ==
  \E a \in 1..Len(s), b \in 1..Len(s) :
    a + 1 < b /\ s[a] = "<" /\ s[a + 1] \in LowerLetters \cup UpperLetters /\ s[b] = ">"

FromHtml ==
  \/ HtmlFetched /\ Len(calls) = 1
  \/ /\ Len(calls) > 0
     /\ IsCall(calls[Len(calls)], "search", S_text)
     /\ ~calls[Len(calls)].threw
     /\ ContainsTag(calls[Len(calls)].after.s)

\* C28: without --html, --json:html and --json:table, a body that comes from
\* HTML is written as the sanitizer's text (cut or not), never as raw HTML
Orig_C28 ==
  (Written /\ ~htmlMode /\ jsonMode \notin {"html", "table"} /\ FromHtml) =>
    /\ outputBody.t = "str"
    /\ ~ContainsTag(outputBody.s)

\* the first 200 characters of b, then "..."
Preview(b) == Str([j \in 1..203 |-> IF j <= 200 THEN b.s[j] ELSE "."])

\* C5 as stated: with -f, --html, --json:html, --json:table or -n the Body
\* written is the resolved body, whatever its form; an object is never cut.
Orig_C5 ==
  Written =>
    /\ (fullBody \/ htmlMode \/ jsonMode \in {"html", "table"} \/ emailNumber # JsNull) =>
         outputBody = body
    /\ body.t = "obj" => outputBody = body

\* C5, amended: with -f, --html or -n the Body written is the resolved body,
\* whatever its form, and an object is never cut; with --json:html or
\* --json:table alone a body that stayed a string of more than 200 characters
\* is cut to 200 characters and "...".
Thm_C5 ==
  Written =>
    /\ (fullBody \/ htmlMode \/ emailNumber # JsNull) => outputBody = body
    /\ body.t = "obj" => outputBody = body
    /\ (DefaultProjection /\ jsonMode \in {"html", "table"} /\ body.t = "str"
          /\ Len(body.s) > 200) => outputBody = Preview(body)

\* with -f a body of more than 200 characters was written whole
Wit_C5 ==
  /\ Written
  /\ fullBody /\ ~htmlMode /\ emailNumber = JsNull /\ jsonMode = "null"
  /\ body = Str(LongText)
  /\ outputBody = body

\* C6: a call that throws leaves the body as it was, without content; the next
\* stage still runs; of the calls on the connection only the first search ends
\* the run when it fails (the run also ends when the projection of the body
\* throws), so every message of a list that is done has been output.
Thm_C6 ==
  /\ \A k \in 1..Len(calls) :
       calls[k].threw => /\ calls[k].after = calls[k].before
                         /\ Blank(calls[k].after)
  /\ (PlainStageOver /\ Len(calls) > 0 /\ IsCall(calls[1], "getPartData", S_html)
        /\ calls[1].threw /\ findTextPart(Current.struct) # JsNull) =>
       (Len(calls) > 1 /\ IsCall(calls[2], "getPartData", S_plain))
  /\ (RefetchStageOver /\ Len(calls) > 0 /\ calls[1].op = "getPartData"
        /\ \A k \in 1..Len(calls) : calls[k].op = "getPartData" => calls[k].threw) =>
       IsCall(calls[Len(calls)], "search", S_text)
  /\ pc = "failed" =>
       \/ i = 0 /\ calls = <<>>
       \/ body.t = "str" /\ processBody(body, looksLikeHtml(body.s)) = TypeError
  /\ (pc = "done" /\ emailNumber = JsNull) => emailCount = Len(messages)
  /\ (pc = "done" /\ emailNumber # JsNull /\ emailNumber.n <= Len(messages)) => Written

\* C27: an exception raised while a body is projected, at the HTML stage or at
\* the re-projection, never ends the loop: the run only fails at the search
Orig_C27 == pc = "failed" => (i = 0 /\ calls = <<>>)

\* every call for the second of two messages threw, and both were output
Wit_C6 ==
  /\ pc = "done"
  /\ emailCount = 2
  /\ Len(calls) = 3
  /\ \A k \in 1..3 : calls[k].threw
  /\ outputBody = Str(<<>>)

\* s holds no <table
NoTable(s) == Find(s, 1, {S_tableOpen}) > Len(s)

\* C14: with --json:table, when the HTML body of the message holds no table,
\* the Body written for the message is the empty object.
Orig_C14 ==
  (Written /\ jsonMode = "table" /\ HtmlFetched /\ ~Blank(Str(calls[1].data))
     /\ NoTable(calls[1].data)) =>
    outputBody = Obj(<<>>)

(***************************************************************************)
(* setVal('body', ...) called on its own: the preview of one body          *)
(***************************************************************************)
MaxShort == 2
MaxOver == 3

PreviewLengths ==
  (0..MaxShort)
  \cup ((MAX_BODY_PREVIEW_LENGTH - 1)..(MAX_BODY_PREVIEW_LENGTH + MaxOver))
  \cup {500}

\* bodies of every length around the limit; the last characters tell a body
\* from its prefixes
PreviewBodies ==
  {Str([j \in 1..n |-> IF j > n - MaxShort THEN "z" ELSE "x"]) : n \in PreviewLengths}
  \cup {Obj(<<>>), Obj(<<[k |-> S_table, v |-> Arr(<<>>)]>>)}

InitPreview ==
  /\ JsonIdle
  /\ StructIdle
  /\ HtmlIdle
  /\ fullBody \in BOOLEAN
  /\ htmlMode \in BOOLEAN
  /\ jsonMode \in {"null", "default", "html", "table"}
  /\ emailNumber \in {JsNull, Num(1)}
  /\ messages = <<>>
  /\ lastMessages = <<>>
  /\ pc = "setVal"
  /\ i = 0
  /\ body \in PreviewBodies
  /\ calls = <<>>
  /\ currentAttachmentSummary = JsFalse
  /\ emailCount = 0
  /\ outputBody = JsNull
  /\ DefaultOptions
  /\ NothingOut
  /\ Console
  /\ NotConnected

\* setVal("body", headersPart, subject, body): val = truncateBody(body)
CallSetVal ==
  /\ pc = "setVal"
  /\ outputBody' = truncateBody(body)
  /\ pc' = "set"
  /\ UNCHANGED <<jsonVars, flagVars, outVars, ioVars, messages, lastMessages, i, body, calls, currentAttachmentSummary,
                 emailCount, structVars, htmlVars>>

NextPreview == CallSetVal

SpecPreview == InitPreview /\ [][NextPreview]_vars

(***************************************************************************)
(* Properties of the preview                                               *)
(***************************************************************************)
\* C4: under the default projection a string body longer than 200 characters
\* becomes its first 200 characters followed by "...", 203 characters in all,
\* and a string body of at most 200 characters is returned unchanged.
Thm_C4 ==
  (pc = "set" /\ DefaultProjection /\ body.t = "str") =>
    IF Len(body.s) > 200
    THEN /\ outputBody.t = "str"
         /\ Len(outputBody.s) = 203
         /\ \A j \in 1..200 : outputBody.s[j] = body.s[j]
         /\ \A j \in 201..203 : outputBody.s[j] = "."
    ELSE outputBody = body

\* a body of 500 characters has been cut to 203
Wit_C4 ==
  /\ pc = "set"
  /\ DefaultProjection
  /\ body.t = "str"
  /\ Len(body.s) = 500
  /\ outputBody.t = "str"
  /\ Len(outputBody.s) = 203

\* the fields the option word asks for
Selected(opt) == IF \E j \in 1..Len(optSet) : optSet[j] = opt THEN <<opt>> ELSE optSet

\* every message output so far has one header of its own
OneHeaderEach == \A j, k \in EmailEntries : j # k => terminal[j].uid # terminal[k].uid

\* C18 as stated: a field word gives exactly that field per email, "all" or
\* a word that is no task gives the six fields in order, under one header
Orig_C18 ==
  extract \notin taskSets =>
    /\ \A j \in EmailEntries : terminal[j].fields = Selected(extract)
    /\ OneHeaderEach

\* C18, amended: so it is in a list; -n writes the six fields whatever the word
Thm_C18 ==
  /\ (ListMode /\ extract \notin taskSets) =>
       /\ \A j \in EmailEntries : terminal[j].fields = Selected(extract)
       /\ OneHeaderEach
       /\ pc \in {"html", "plain", "refetch", "project", "output"} => Len(terminal) = i - 1
       /\ pc = "done" => Len(terminal) = Len(lastMessages)
  /\ emailNumber # JsNull =>
       /\ \A j \in EmailEntries : terminal[j].fields = optSet
       /\ pc = "done" /\ emailNumber.n \in 1..Len(messages) => Len(terminal) = 1

\* a list of two messages with the word subject: two headers, one field each
Wit_C18 ==
  /\ pc = "done"
  /\ ListMode
  /\ extract = "subject"
  /\ Len(messages) = 2
  /\ terminal = <<Email(2, 1, <<"subject">>), Email(1, 2, <<"subject">>)>>

\* C20: a run with -a and none of -n, from=, subject=, attachment=true
\* downloads no attachment
Orig_C20 ==
  (/\ attachmentDownload
   /\ emailNumber = JsNull
   /\ fromFilter = JsNull
   /\ subjectFilter = JsNull
   /\ ~attachmentFilter) => downloaded = <<>>

(***************************************************************************)
(* Properties of the output file and of the connection                     *)
(***************************************************************************)
\* -o names a file that exists and still has the content it had before the run
ExistingFileOption ==
  outputOption # JsNull /\ outputOption.type = "file" /\ outputFile = Existing

\* the step creates the output file or empties it
CreatesOrEmpties ==
  \/ ~outputFile.exists /\ outputFile'.exists
  \/ outputFile.old /\ ~outputFile'.old

\* C21: when -o names an existing file the run fails before the connection is
\* opened, fetches and writes nothing and leaves the file as it was; an
\* output file is created or emptied only by the first line written
Thm_C21 ==
  /\ [](ExistingFileOption =>
          /\ pc \in {"prepare", "failed"}
          /\ ~conn.opened
          /\ lastMessages = <<>> /\ calls = <<>>
          /\ NothingOut)
  /\ [][/\ ExistingFileOption => outputFile' = outputFile
        /\ CreatesOrEmpties =>
             /\ outputWriter.enabled
             /\ ~outputWriter.initialized /\ outputWriter'.initialized
             /\ outputFile'.lines >= 1]_vars

\* the run has failed at prepareOutputWriter, the mailbox has two messages
Wit_C21 ==
  /\ ExistingFileOption
  /\ pc = "failed"
  /\ Len(messages) = 2

\* the run is over: extractEmail() has returned
Over == pc \in {"done", "failed"}

\* C29: on every path after the connection has been opened, connection.end()
\* is called before the run is over, and never more than once
Orig_C29 ==
  /\ conn.ended <= 1
  /\ (Over /\ conn.opened) => conn.ended = 1

(***************************************************************************)
(* Raw arrays around sibling parts                                         *)
(***************************************************************************)
\* parts with the run parts[a..b] wrapped in n levels of raw arrays
WrapRun(parts, a, b, n) ==
  SubSeq(parts, 1, a - 1) \o <<Nest(n - 1, ArrayOf(SubSeq(parts, a, b)))>>
  \o SubSeq(parts, b + 1, Len(parts))

\* every struct got from parts by wrapping one run of siblings, at any level
RECURSIVE Wrappings(_)
Wrappings(parts) ==
  {WrapRun(parts, run[1], run[2], n) :
     run \in {r \in (1..Len(parts)) \X (1..Len(parts)) : r[1] <= r[2]}, n \in 1..MaxNest}
  \cup UNION {{[parts EXCEPT ![j] = inner] :
                 inner \in IF parts[j].k = "array"
                           THEN {ArrayOf(w) : w \in Wrappings(parts[j].items)}
                           ELSE {[parts[j] EXCEPT !.parts = w] : w \in Wrappings(parts[j].parts)}} :
              j \in 1..Len(parts)}

\* the first part of the given type and subtype, depth first
FirstPart(parts, type, subtype) ==
  LET all == AllParts(parts)
      hits == {j \in 1..Len(all) : all[j].type = type /\ all[j].subtype = subtype}
  IN IF hits = {} THEN JsNull ELSE all[Least(hits)]

\* a part without its children (which a wrapping below it rearranges)
Own(part) == IF part = JsNull THEN JsNull ELSE [part EXCEPT !.parts = <<>>]
OwnAll(list) == [j \in 1..Len(list) |-> Own(list[j])]

\* C23: wrapping a run of sibling parts in raw arrays changes neither the
\* first depth-first text/plain part that findTextPart returns, nor the first
\* text/html part that findHtmlPart returns, nor findAttachmentsInStruct's list
Thm_C23 ==
  spc \in {"found", "named", "summarised"} =>
    /\ findTextPart(msg.struct) = FirstPart(msg.struct, S_text, S_plain)
    /\ findHtmlPart(msg.struct) = FirstPart(msg.struct, S_text, S_html)
    /\ \A w \in Wrappings(msg.struct) :
         /\ Own(findTextPart(w)) = Own(findTextPart(msg.struct))
         /\ Own(findHtmlPart(w)) = Own(findHtmlPart(msg.struct))
         /\ OwnAll(findAttachmentsInStruct(w, <<>>)) = OwnAll(attachments)

\* the plain and the HTML part of a multipart wrapped together, next to a PDF
Wit_C23 ==
  /\ spc = "found"
  /\ msg.struct = <<Multipart(1, <<TextPlainLeaf(2), TextHtmlLeaf(3)>>), PdfAttachmentLeaf(4)>>
  /\ attachments = <<PdfAttachmentLeaf(4)>>
  /\ LET w == <<Multipart(1, <<Nest(MaxNest - 1, ArrayOf(<<TextPlainLeaf(2), TextHtmlLeaf(3)>>))>>),
                PdfAttachmentLeaf(4)>>
     IN /\ w \in Wrappings(msg.struct)
        /\ findTextPart(w) = TextPlainLeaf(2)
        /\ findHtmlPart(w) = TextHtmlLeaf(3)
        /\ findAttachmentsInStruct(w, <<>>) = attachments
(***************************************************************************)
(* Attachment resolution from the raw message                              *)
(***************************************************************************)
Called(name) == \E j \in 1..Len(summary.calls) : summary.calls[j] = name

\* the raw part the parser is given: the pre-fetched one, else the re-fetched
RawPartUsed ==
  IF getRawMessagePart(msg.parts) # JsNull THEN getRawMessagePart(msg.parts)
  ELSE IF Called("search") /\ ~summary.io.refetchThrows /\ summary.io.refetch # <<>>
    THEN getRawMessagePart(summary.io.refetch[1].parts)
  ELSE JsNull

\* C24: the raw message is consulted only when the struct yields no
\* attachment, and the UID re-fetch is made only when in addition no raw part
\* was pre-fetched; the result is false, never an exception, when the
\* re-fetch fails, the raw text is blank, the parse fails or the parse
\* reports no attachment.
Thm_C24 ==
  spc = "summarised" =>
    /\ attachments # <<>> => summary.calls = <<>>
    /\ Called("search") => attachments = <<>> /\ getRawMessagePart(msg.parts) = JsNull
    /\ Called("simpleParser") => attachments = <<>> /\ RawPartUsed # JsNull
    /\ summary.ret # TypeError
    /\ attachments = <<>> =>
         /\ RawPartUsed = JsNull => summary.ret = JsFalse /\ ~Called("simpleParser")
         /\ RawPartUsed # JsNull /\ trim(RawPartUsed.body) = <<>> =>
              summary.ret = JsFalse /\ ~Called("simpleParser")
         /\ summary.io.parseThrows => summary.ret = JsFalse
         /\ summary.io.parsed = <<>> => summary.ret = JsFalse

\* no attachment in the struct, no raw part pre-fetched: the message is
\* re-fetched by UID, its raw text parsed, the parse fails, the result is false
Wit_C24 ==
  /\ spc = "summarised"
  /\ attachments = <<>>
  /\ summary.calls = <<"search", "simpleParser">>
  /\ summary.io.parseThrows
  /\ summary.ret = JsFalse

(***************************************************************************)
(* Skipped and transparent tags of the structurer                          *)
(***************************************************************************)
\* the texts that stand inside a subtree whose root is a skip tag
RECURSIVE SkippedTexts(_, _)
SkippedTexts(children, inside) ==
  UNION {IF children[j].type = "text"
           THEN (IF inside /\ trimJs(children[j].data) # <<>> THEN {children[j].data} ELSE {})
         ELSE IF children[j].type = "tag"
           THEN SkippedTexts(children[j].children, inside \/ children[j].name \in SKIP_TAGS)
         ELSE {} : j \in 1..Len(children)}

\* the strings of a JSON value, at every level
RECURSIVE StringsIn(_)
StringsIn(v) ==
  IF v.t = "str" THEN {v.s}
  ELSE IF v.t = "arr" THEN UNION {StringsIn(v.items[j]) : j \in 1..Len(v.items)}
  ELSE IF v.t = "obj" THEN UNION {StringsIn(v.kv[j].v) : j \in 1..Len(v.kv)}
  ELSE {}

\* the keys of a JSON value, at every level
RECURSIVE KeysIn(_)
KeysIn(v) ==
  IF v.t = "arr" THEN UNION {KeysIn(v.items[j]) : j \in 1..Len(v.items)}
  ELSE IF v.t = "obj"
    THEN {v.kv[j].k : j \in 1..Len(v.kv)} \cup UNION {KeysIn(v.kv[j].v) : j \in 1..Len(v.kv)}
  ELSE {}

\* C25: no text that stands inside a style, script, head, meta, link or
\* noscript subtree appears in the output, be it as element text, as
\* tag-data or in a table cell.
Orig_C25 ==
  hpc = "out" =>
    \A skipped \in SkippedTexts(doc, FALSE), out \in StringsIn(json) : ~includes(out, skipped)

\* C26: html, body, tbody, thead and tfoot never appear as a key, at any
\* level of the output.
Orig_C26 ==
  hpc = "out" => KeysIn(json) \cap TRANSPARENT_TAGS = {}

(***************************************************************************)
(* The JSON object of one email.  A header value is absent (Undefined), a  *)
(* string, or an array of strings; JSON.stringify leaves out a property    *)
(* whose value is undefined.                                               *)
(***************************************************************************)
Undefined == [t |-> "undefined"]

\* x || ''
orEmpty(value) == IF value = Undefined \/ Falsy(value) THEN Str(<<>>) ELSE value

\* Array.isArray(val) ? val[0] : val
firstIfArray(val) ==
  IF val.t = "arr" THEN (IF val.items = <<>> THEN Undefined ELSE val.items[1]) ELSE val

\* val.split(',').map(v => v.trim())
RECURSIVE splitTrim(_)
splitTrim(s) ==
  IF ~includes(s, <<",">>) THEN <<Str(trim(s))>>
  ELSE <<Str(trim(SubSeq(s, 1, indexOf(s, 1, <<",">>) - 1)))>>
       \o splitTrim(SubSeq(s, indexOf(s, 1, <<",">>) + 1, Len(s)))

\* let subject = headersPart.subject || ''; arrays are joined with ' '
subjectOf(headersPart) ==
  LET subject == orEmpty(headersPart.subject)
  IN IF subject.t = "arr"
     THEN Str(join([j \in 1..Len(subject.items) |-> subject.items[j].s], <<" ">>))
     ELSE subject

\* setVal(opt, headersPart, subject, body): the value it leaves in val
setVal(opt, headersPart, subject, bodyText) ==
  IF opt = "subject" THEN subject
  ELSE IF opt = "body" THEN truncateBody(bodyText)
  ELSE IF opt = "attachment" THEN currentAttachmentSummary
  ELSE headersPart[opt]

\* opt[0].toUpperCase() + opt.substring(1), for the members of optSet
fieldName(opt) ==
  [from |-> "From", to |-> "To", date |-> "Date", subject |-> "Subject",
   attachment |-> "Attachment", body |-> "Body"][opt]

\* obj[key] = value on the entries of an object
setField(kv, key, value) ==
  IF \E j \in 1..Len(kv) : kv[j].k = key
  THEN [j \in 1..Len(kv) |-> IF kv[j].k = key THEN [k |-> key, v |-> value] ELSE kv[j]]
  ELSE Append(kv, [k |-> key, v |-> value])

\* the value the JSON branch of outputToTerminal stores for the field
jsonFieldValue(opt, val) ==
  IF opt = "to" /\ val.t = "str" /\ includes(val.s, <<",">>) THEN Arr(splitTrim(val.s))
  ELSE IF opt \in {"from", "date"} THEN firstIfArray(val)
  ELSE val

\* the JSON branch of outputToTerminal(opt, val, h) on jsonOutput[currentEmailKey]
RECURSIVE outputAllJson(_, _, _, _, _)
outputAllJson(kv, outputs, j, headersPart, bodyText) ==
  IF j > Len(outputs) THEN kv
  ELSE LET opt == outputs[j].opt
           val == setVal(opt, headersPart, subjectOf(headersPart), bodyText)
       IN outputAllJson(setField(IF outputs[j].h = 0 THEN <<>> ELSE kv, fieldName(opt),
                                 jsonFieldValue(opt, val)),
                        outputs, j + 1, headersPart, bodyText)

\* const emailData = { From: ..., To: ..., Date: ..., ... } of the -n branch
emailData(headersPart, subject, bodyText) ==
  LET to == orEmpty(headersPart.to)
      commaIn == IF to.t = "arr" THEN Str(<<",">>) \in {to.items[j] : j \in 1..Len(to.items)}
                 ELSE includes(to.s, <<",">>)
  IN IF commaIn /\ to.t = "arr" THEN TypeError
     ELSE <<[k |-> "From", v |-> IF headersPart.from.t = "arr" THEN firstIfArray(headersPart.from)
                                 ELSE orEmpty(headersPart.from)],
            [k |-> "To", v |-> IF commaIn THEN Arr(splitTrim(to.s)) ELSE to],
            [k |-> "Date", v |-> IF headersPart.date.t = "arr" THEN firstIfArray(headersPart.date)
                                 ELSE orEmpty(headersPart.date)],
            [k |-> "Subject", v |-> subject],
            [k |-> "Attachment", v |-> IF Falsy(currentAttachmentSummary)
                                       THEN Str(<<"f", "a", "l", "s", "e">>)
                                       ELSE currentAttachmentSummary],
            [k |-> "Body", v |-> bodyText]>>

\* JSON.parse(JSON.stringify(object)): properties that are undefined are left out
stringify(kv) == Obj(SelectSeq(kv, LAMBDA e : e.v # Undefined))

S_sent == <<"M", "o", "n">>
S_two == <<"a", "@", "x", ",", " ", "b", "@", "y">>

HeaderValues(s, t) == {Undefined, Str(s), Arr(<<Str(s)>>), Arr(<<Str(s), Str(t)>>)}

HeaderBodies ==
  [from : HeaderValues(S_sender, S_other), to : {Undefined, Str(S_two), Arr(<<Str(S_other)>>)},
   date : HeaderValues(S_sent, S_sent), subject : {Undefined, Arr(<<Str(S_Hello)>>)}]

InitJson ==
  /\ StructIdle
  /\ HtmlIdle
  /\ fullBody = FALSE
  /\ htmlMode = FALSE
  /\ jsonMode \in {"default", "html"}
  /\ \/ emailNumber = JsNull /\ extract \in {"all", "from", "date", "subject"}
     \/ emailNumber = Num(1) /\ extract = "all"
  /\ count = getDefaultCount
  /\ attachmentDownload = FALSE
  /\ fromFilter = JsNull
  /\ subjectFilter = JsNull
  /\ attachmentFilter = FALSE
  /\ outputOption = JsNull
  /\ messages = <<>>
  /\ lastMessages = <<>>
  /\ pc = "idle"
  /\ i = 0
  /\ body = Str(S_hi)
  /\ calls = <<>>
  /\ currentAttachmentSummary = JsFalse
  /\ emailCount = 0
  /\ outputBody = JsNull
  /\ NothingOut
  /\ Console
  /\ NotConnected
  /\ headerBody \in HeaderBodies
  /\ jsonEmail = JsNull
  /\ jpc = "in"

\* list mode: handleOption(extract, headersPart, subject, body), then JSON.stringify
ListObject ==
  /\ jpc = "in"
  /\ emailNumber = JsNull
  /\ jsonEmail' = stringify(outputAllJson(<<>>, handleOption(extract), 1, headerBody, body))
  /\ jpc' = "out"
  /\ UNCHANGED <<headerBody, structVars, htmlVars, runVars>>

\* -n mode: the emailData object, then JSON.stringify
NumberObject ==
  /\ jpc = "in"
  /\ emailNumber # JsNull
  /\ jsonEmail' = LET data == emailData(headerBody, subjectOf(headerBody), body)
                  IN IF data = TypeError THEN TypeError ELSE stringify(data)
  /\ jpc' = "out"
  /\ UNCHANGED <<headerBody, structVars, htmlVars, runVars>>

NextJson ==
  \/ ListObject
  \/ NumberObject

SpecJson == InitJson /\ [][NextJson]_vars

FieldOf(obj, key) ==
  IF \E j \in 1..Len(obj.kv) : obj.kv[j].k = key
  THEN obj.kv[CHOOSE j \in 1..Len(obj.kv) : obj.kv[j].k = key].v
  ELSE Undefined

\* C22: in list mode and in -n mode, the email object of the JSON output has
\* From and Date, and both are strings, whatever the shape of the headers
\* (the object of a run that asks for one other field is not concerned).
Orig_C22 ==
  (jpc = "out" /\ extract = "all") =>
    /\ jsonEmail # TypeError
    /\ FieldOf(jsonEmail, "From").t = "str"
    /\ FieldOf(jsonEmail, "Date").t = "str"

(***************************************************************************)
(* Where the downloaded attachments are written                            *)
(***************************************************************************)
\* filePath is a file inside the directory dir, at any depth
Within(filePath, dir) ==
  /\ Len(filePath) > Len(dir)
  /\ SubSeq(filePath, 1, Len(dir)) = dir

\* C30: every file written by the attachment download lies within the
\* output directory, whatever the filename of the attachment is.
Orig_C30 ==
  \A j \in 1..Len(downloaded) : Within(downloaded[j].filePath, downloadDir)

====
